---- MODULE Spec2Model ----
(***************************************************************************)
(* Model of the RST (directive-field) docstring parser of griffe,          *)
(* src/src/griffe/docstrings/rst.py.                                       *)
(*                                                                         *)
(* A state is one call of parse(): the input docstring (its lines and its  *)
(* parent object), the cursor of the scan loop, the ParsedValues           *)
(* accumulator, the warnings handed to warn(), and the returned sections.  *)
(* Beside it the state holds the other call of parse(), if any, that is    *)
(* not running now, and what the calls that ran alone returned.            *)
(* One action models one iteration of the loop of parse(): the reader of   *)
(* the first matching field type, or the else branch that appends the      *)
(* line to the description.  Strings are TLA+ strings, handled character   *)
(* by character with Len, SubSeq and \o as the Python code handles them.   *)
(* Indexes are 1-based: Python's index i is i + 1 here.                    *)
(*                                                                         *)
(* The module also models main() of src/src/griffe/cli.py, one action per  *)
(* step of the command (CliSpec), and the parser of the indentation        *)
(* sections, griffe.docstrings.google, one action per iteration of its     *)
(* loop (GoogleSpec), as section 4.2 of the specification and             *)
(* src/tests/test_google.py describe it.                                   *)
(***************************************************************************)
EXTENDS Integers, Sequences, FiniteSets, TLC

VARIABLES
    lines,            \* docstring.lines: the input, a sequence of strings
    parent,           \* docstring.parent: None or a function signature
    curr_line_index,  \* the cursor of the loop of parse() (1-based)
    description,      \* ParsedValues.description
    parameters,       \* ParsedValues.parameters (insertion-ordered dict)
    param_types,      \* ParsedValues.param_types
    attributes,       \* ParsedValues.attributes (insertion-ordered dict)
    attribute_types,  \* ParsedValues.attribute_types
    exceptions,       \* ParsedValues.exceptions
    return_value,     \* ParsedValues.return_value
    return_type,      \* ParsedValues.return_type
    warnings,         \* the messages given to warn(), in emission order
    result,           \* the list of sections parse() returns
    pc,               \* "scan": in the loop; "done": parse() has returned
    suspended,        \* the locals of a second call of parse() that another
                      \* thread runs, while that thread waits; None without
    alone             \* the calls that ran alone, as they were on return

\* The command line application, src/src/griffe/cli.py: one call of main().
VARIABLES
    opts,                \* the argparse.Namespace of the command line;
                         \* None when main() is not called
    installed,           \* the packages the loader finds on the search paths
    search,              \* main's local search: None or a list of paths
    per_package_output,  \* main's local per_package_output
    package,             \* the position (1-based) of the for loop of
                         \* _load_packages / _load_packages_async
    loaded,              \* the dict loaded, then main's local packages
                         \* (insertion-ordered dict, module.name -> module)
    log,                 \* the records handed to logger, in order
    printed,             \* the calls of _print_data, in order
    exit_code,           \* None, or the value main() returned
    main_pc              \* where main() is: "idle", "start", "load",
                         \* "serialize", "return", "returned", "raised"

main_vars == <<opts, installed, search, per_package_output, package, loaded,
               log, printed, exit_code, main_pc>>

\* The indentation-section (Google-style) parser: the locals of one call of
\* its parse(), which reads docstring.lines and docstring.parent as well.
VARIABLES
    sections,         \* the sections collected so far
    current_section,  \* the lines of text read since the last section
    in_code_block,    \* the loop is between the fences of a code block
    index             \* the cursor of the loop (1-based)

google_vars == <<sections, current_section, in_code_block, index>>

\* What a call of parse() leaves alone: the state of the other entry points.
elsewhere == <<main_vars, google_vars>>

vars == <<lines, parent, curr_line_index, description, parameters, param_types,
          attributes, attribute_types, exceptions, return_value, return_type,
          warnings, result, pc, suspended, alone, elsewhere>>

parsed_values == <<description, parameters, param_types, attributes,
                   attribute_types, exceptions, return_value, return_type>>

-----------------------------------------------------------------------------
(* Python values *)

\* None, and a value that is not None (Optional[str]).
None == << >>
Some(v) == <<v>>
Val(o) == o[1]

-----------------------------------------------------------------------------
(* Python's str methods, as the parser uses them *)

Char(s, i) == SubSeq(s, i, i)

\* The characters str.lstrip(), str.strip() and str.isspace() treat as blank.
Whitespace == {" ", "\t", "\n"}

\* str.startswith(prefix)
StartsWith(s, prefix) ==
    /\ Len(s) >= Len(prefix)
    /\ SubSeq(s, 1, Len(prefix)) = prefix

RECURSIVE FirstNotIn(_, _, _)
FirstNotIn(s, chars, i) ==
    IF i > Len(s) THEN i
    ELSE IF Char(s, i) \in chars THEN FirstNotIn(s, chars, i + 1)
    ELSE i

RECURSIVE LastNotIn(_, _, _)
LastNotIn(s, chars, i) ==
    IF i < 1 THEN 0
    ELSE IF Char(s, i) \in chars THEN LastNotIn(s, chars, i - 1)
    ELSE i

\* str.lstrip()
LStrip(s) == SubSeq(s, FirstNotIn(s, Whitespace, 1), Len(s))

\* str.rstrip(chars)
RStripChars(s, chars) == SubSeq(s, 1, LastNotIn(s, chars, Len(s)))

\* str.strip()
Strip(s) == LStrip(RStripChars(s, Whitespace))

\* str.isspace(): at least one character, and all of them blank
IsSpace(s) == Len(s) > 0 /\ FirstNotIn(s, Whitespace, 1) > Len(s)

\* str.find(sub, i): the first index >= i where sub occurs, 0 when there is none
RECURSIVE Find(_, _, _)
Find(s, sub, i) ==
    IF i + Len(sub) - 1 > Len(s) THEN 0
    ELSE IF SubSeq(s, i, i + Len(sub) - 1) = sub THEN i
    ELSE Find(s, sub, i + 1)

\* str.split(sep, maxsplit); maxsplit = -1 splits at every occurrence
RECURSIVE Split(_, _, _)
Split(s, sep, maxsplit) ==
    LET k == Find(s, sep, 1) IN
    IF maxsplit = 0 \/ k = 0 THEN <<s>>
    ELSE <<SubSeq(s, 1, k - 1)>>
         \o Split(SubSeq(s, k + Len(sep), Len(s)), sep, maxsplit - 1)

\* str.replace(old, new): every occurrence, left to right, not overlapping
RECURSIVE Replace(_, _, _)
Replace(s, old, new) ==
    LET k == Find(s, old, 1) IN
    IF k = 0 THEN s
    ELSE SubSeq(s, 1, k - 1) \o new
         \o Replace(SubSeq(s, k + Len(old), Len(s)), old, new)

\* sep.join(strs)
RECURSIVE Join(_, _)
Join(strs, sep) ==
    IF Len(strs) = 0 THEN ""
    ELSE IF Len(strs) = 1 THEN strs[1]
    ELSE strs[1] \o sep \o Join(Tail(strs), sep)

-----------------------------------------------------------------------------
(* The field types *)

PARAM_NAMES == {"param", "parameter", "arg", "argument", "key", "keyword"}
PARAM_TYPE_NAMES == {"type"}
ATTRIBUTE_NAMES == {"var", "ivar", "cvar"}
ATTRIBUTE_TYPE_NAMES == {"vartype"}
RETURN_NAMES == {"returns", "return"}
RETURN_TYPE_NAMES == {"rtype"}
EXCEPTION_NAMES == {"raises", "raise", "except", "exception"}

\* FieldType.matches(line)
matches(names, line) == \E name \in names : StartsWith(line, ":" \o name)

\* The list field_types: the readers in the order the loop of parse() tries them.
field_types ==
    << [names |-> PARAM_TYPE_NAMES,     reader |-> "_read_parameter_type"],
       [names |-> PARAM_NAMES,          reader |-> "_read_parameter"],
       [names |-> ATTRIBUTE_TYPE_NAMES, reader |-> "_read_attribute_type"],
       [names |-> ATTRIBUTE_NAMES,      reader |-> "_read_attribute"],
       [names |-> EXCEPTION_NAMES,      reader |-> "_read_exception"],
       [names |-> RETURN_NAMES,         reader |-> "_read_return"],
       [names |-> RETURN_TYPE_NAMES,    reader |-> "_read_return_type"] >>

\* The reader the for loop of parse() calls for a line: that of the first field
\* type that matches, "" when none does (the for loop's else branch).
ReaderFor(line) ==
    LET hits == {i \in DOMAIN field_types : matches(field_types[i].names, line)} IN
    IF hits = {} THEN ""
    ELSE field_types[CHOOSE i \in hits : \A j \in hits : i <= j].reader

-----------------------------------------------------------------------------
(* Directives *)

\* The loop stopped only by a line that a field type matches.
RECURSIVE ContinuationEnd_at_fields(_, _)
ContinuationEnd_at_fields(ls, i) ==
    IF i <= Len(ls) /\ ReaderFor(ls[i]) = "" THEN ContinuationEnd_at_fields(ls, i + 1)
    ELSE i

\* The loop of _consolidate_continuation_lines: the index of the first line
\* after offset that starts with ":", Len(ls) + 1 when there is none.
RECURSIVE ContinuationEnd(_, _)
ContinuationEnd(ls, i) ==
    IF i <= Len(ls) /\ ~StartsWith(ls[i], ":") THEN ContinuationEnd(ls, i + 1)
    ELSE i

\* _consolidate_continuation_lines(lines, offset): <<the line, the next index>>
consolidate_continuation_lines(ls, offset) ==
    LET stop == ContinuationEnd(ls, offset + 1)
        block == [k \in 1..(stop - offset) |-> LStrip(ls[offset + k - 1])]
    IN <<RStripChars(Join(block, " "), {"\n"}), stop - 1>>

\* The first " or " alone replaced.
consolidate_descriptive_type_first_only(descriptive_type) ==
    LET k == Find(descriptive_type, " or ", 1) IN
    IF k = 0 THEN descriptive_type
    ELSE SubSeq(descriptive_type, 1, k - 1) \o " | "
         \o SubSeq(descriptive_type, k + Len(" or "), Len(descriptive_type))

\* _consolidate_descriptive_type(descriptive_type)
consolidate_descriptive_type(descriptive_type) ==
    Replace(descriptive_type, " or ", " | ")

\* The directive parsed without the warning of a failed split.
parse_directive_silent(ls, offset) ==
    LET cons == consolidate_continuation_lines(ls, offset)
        line == cons[1]
        next_index == cons[2]
        parts == Split(line, ":", 2)
    IN IF Len(parts) # 3
       THEN [line |-> line, next_index |-> next_index, directive_parts |-> << >>,
             value |-> "", invalid |-> TRUE, warns |-> << >>]
       ELSE [line |-> line, next_index |-> next_index,
             directive_parts |-> Split(parts[2], " ", -1),
             value |-> Strip(parts[3]), invalid |-> FALSE,
             warns |-> << >>]

\* _parse_directive(docstring, offset): a ParsedDirective, and in warns the
\* warning it emitted, if any.
parse_directive(ls, offset) ==
    LET cons == consolidate_continuation_lines(ls, offset)
        line == cons[1]
        next_index == cons[2]
        parts == Split(line, ":", 2)
    IN IF Len(parts) # 3
       THEN [line |-> line, next_index |-> next_index, directive_parts |-> << >>,
             value |-> "", invalid |-> TRUE,
             warns |-> <<"Failed to get ':directive: value' pair from '" \o line \o "'">>]
       ELSE [line |-> line, next_index |-> next_index,
             directive_parts |-> Split(parts[2], " ", -1),
             value |-> Strip(parts[3]), invalid |-> FALSE,
             warns |-> << >>]

-----------------------------------------------------------------------------
(* The parent object: None, or a function with its arguments and returns *)

\* docstring.parent.arguments[name]: the argument, None for the KeyError; an
\* absent parent (or one without arguments: a module, a class) is the
\* AttributeError, handled like the KeyError by both callers.
HasArgument(par, name) ==
    par # None /\ \E i \in DOMAIN par.arguments : par.arguments[i].name = name

Argument(par, name) ==
    par.arguments[CHOOSE i \in DOMAIN par.arguments : par.arguments[i].name = name]

\* _determine_param_default(docstring, name)
determine_param_default(par, name) ==
    IF HasArgument(par, LStrip(name)) THEN Argument(par, LStrip(name)).default
    ELSE None

\* The annotation determined without the warning of a parameter that the
\* signature does not have.
determine_param_annotation_silent(par, name, directive_type, ptypes) ==
    LET parsed_param_type == IF name \in DOMAIN ptypes THEN Some(ptypes[name]) ELSE None
        a1 == IF parsed_param_type # None THEN parsed_param_type ELSE None
        a2 == IF directive_type # None THEN directive_type ELSE a1
        w1 == IF directive_type # None /\ parsed_param_type # None
              THEN <<"Duplicate parameter information for '" \o name \o "'">>
              ELSE << >>
    IN IF a2 # None THEN [annotation |-> a2, warns |-> w1]
       ELSE IF HasArgument(par, LStrip(name))
            THEN [annotation |-> Argument(par, LStrip(name)).annotation, warns |-> w1]
            ELSE [annotation |-> None, warns |-> w1]

\* The precedence of the two docstring types exchanged: the "type" directive
\* type wins over the in-line directive type.
determine_param_annotation_type_first(par, name, directive_type, ptypes) ==
    LET parsed_param_type == IF name \in DOMAIN ptypes THEN Some(ptypes[name]) ELSE None
        a1 == IF directive_type # None THEN directive_type ELSE None
        a2 == IF parsed_param_type # None THEN parsed_param_type ELSE a1
        w1 == IF directive_type # None /\ parsed_param_type # None
              THEN <<"Duplicate parameter information for '" \o name \o "'">>
              ELSE << >>
    IN IF a2 # None THEN [annotation |-> a2, warns |-> w1]
       ELSE IF HasArgument(par, LStrip(name))
            THEN [annotation |-> Argument(par, LStrip(name)).annotation, warns |-> w1]
            ELSE [annotation |-> None,
                  warns |-> w1 \o <<"No matching parameter for '" \o name \o "'">>]

\* _determine_param_annotation(docstring, name, directive_type, parsed_values):
\* the annotation, and in warns the warnings it emitted.
determine_param_annotation(par, name, directive_type, ptypes) ==
    LET parsed_param_type == IF name \in DOMAIN ptypes THEN Some(ptypes[name]) ELSE None
        a1 == IF parsed_param_type # None THEN parsed_param_type ELSE None
        a2 == IF directive_type # None THEN directive_type ELSE a1
        w1 == IF directive_type # None /\ parsed_param_type # None
              THEN <<"Duplicate parameter information for '" \o name \o "'">>
              ELSE << >>
    IN IF a2 # None THEN [annotation |-> a2, warns |-> w1]
       ELSE IF HasArgument(par, LStrip(name))
            THEN [annotation |-> Argument(par, LStrip(name)).annotation, warns |-> w1]
            ELSE [annotation |-> None,
                  warns |-> w1 \o <<"No matching parameter for '" \o name \o "'">>]

-----------------------------------------------------------------------------
(* Dictionaries *)

\* The membership test that always answers no: the duplicate check forgotten.
HasName_never(entries, name) == FALSE

\* An insertion-ordered dict of entries keyed by their name is the sequence of
\* its values; a plain dict of strings is a function.
HasName(entries, name) == \E i \in DOMAIN entries : entries[i].name = name

IndexOf(entries, name) == CHOOSE i \in DOMAIN entries : entries[i].name = name

\* d[key] = value
DictSet(d, key, value) ==
    [k \in DOMAIN d \cup {key} |-> IF k = key THEN value ELSE d[k]]

-----------------------------------------------------------------------------
(* _strip_blank_lines and _parsed_values_to_sections *)

\* A line counted as blank only when it is empty: isspace() forgotten.
IsBlank_empty_only(line) == line = ""

IsBlank(line) == line = "" \/ IsSpace(line)

\* Every blank line dropped, those between two lines with content included.
strip_blank_lines_all(ls) == SelectSeq(ls, LAMBDA line : ~IsBlank(line))

\* _strip_blank_lines(lines): initial_content counts the blank lines before
\* the first line with content, final_content is the index of the last line
\* with content (Python index 0 when there is none).
strip_blank_lines(ls) ==
    IF Len(ls) = 0 THEN ls
    ELSE LET content == {i \in DOMAIN ls : ~IsBlank(ls[i])}
             initial_content ==
                 IF content = {} THEN Len(ls)
                 ELSE (CHOOSE i \in content : \A j \in content : i <= j) - 1
             final_content ==
                 IF content = {} THEN 0
                 ELSE (CHOOSE i \in content : \A j \in content : j <= i) - 1
         IN SubSeq(ls, initial_content + 1, final_content + 1)

\* The sections in another order: the return value before the arguments.
parsed_values_to_sections_returns_first(descr, params, attrs, ret, excs) ==
    <<[kind |-> "text", value |-> Join(strip_blank_lines(descr), "\n")]>>
    \o (IF ret # None THEN <<[kind |-> "returns", value |-> Val(ret)]>> ELSE << >>)
    \o (IF Len(params) > 0 THEN <<[kind |-> "arguments", value |-> params]>> ELSE << >>)
    \o (IF Len(attrs) > 0 THEN <<[kind |-> "attributes", value |-> attrs]>> ELSE << >>)
    \o (IF Len(excs) > 0 THEN <<[kind |-> "raises", value |-> excs]>> ELSE << >>)

\* _parsed_values_to_sections(parsed_values)
parsed_values_to_sections(descr, params, attrs, ret, excs) ==
    <<[kind |-> "text", value |-> Join(strip_blank_lines(descr), "\n")]>>
    \o (IF Len(params) > 0 THEN <<[kind |-> "arguments", value |-> params]>> ELSE << >>)
    \o (IF Len(attrs) > 0 THEN <<[kind |-> "attributes", value |-> attrs]>> ELSE << >>)
    \o (IF ret # None THEN <<[kind |-> "returns", value |-> Val(ret)]>> ELSE << >>)
    \o (IF Len(excs) > 0 THEN <<[kind |-> "raises", value |-> excs]>> ELSE << >>)

-----------------------------------------------------------------------------
(* The inputs *)

\* The longest docstring made of the lines of one group, in lines.
MaxLines == 3

\* The longest docstring mixing the fields of every type, in lines.
MaxMixed == 2

\* Parameter fields, with and without an in-line type, and parameter-type fields.
ParamLines ==
    { ":param x: the x value.",
      ":param int x: an integer.",
      ":param y: the y value.",
      ":type x: str",
      ":type x: int or None",
      ":param x" }

\* Return fields and return-type fields.
ReturnLines ==
    { ":return: the result.",
      ":returns: another.",
      ":rtype: int",
      ":rtype: str or None" }

\* The fields a reader rejects: no second ":" to split at, or a count of
\* directive words its reader does not accept.
MalformedLines ==
    { ":param x",
      ":param a b c: too many.",
      ":type int x: two words",
      ":var a b: two names",
      ":vartype a b: int",
      ":raises: no type",
      ":return",
      ":rtype" }

\* A field of every type, the malformed fields, and text.
MixedLines ==
    { ":param x: the x value.",
      ":type x: str",
      ":var a: an attribute.",
      ":vartype a: int",
      ":raises E: when wrong",
      ":return: the result.",
      ":rtype: int",
      "Some text." } \cup MalformedLines

\* The minimal directive docstring of the specification's section 8.
RoundTripExample ==
    << ":param x: the x value.",
       ":type x: int",
       ":returns: the result.",
       ":rtype: int" >>

\* The parents: none; a function whose signature has x, annotated, with a
\* default, and a return annotation; a function without x, whose argument y
\* has neither annotation nor default, and without return annotation.
PoolParents ==
    { None,
      [arguments |-> <<[name |-> "x", annotation |-> Some("int"), default |-> Some("1")]>>,
       returns |-> Some("bool")],
      [arguments |-> <<[name |-> "y", annotation |-> None, default |-> None]>>,
       returns |-> None] }

RECURSIVE SeqsUpTo(_, _)
SeqsUpTo(S, n) ==
    IF n = 0 THEN {<< >>}
    ELSE LET shorter == SeqsUpTo(S, n - 1) IN
         shorter \cup {Append(q, e) : q \in shorter, e \in S}

\* The state parse() starts in: parsed_values = ParsedValues(), curr_line_index = 0.
Start ==
    /\ curr_line_index = 1
    /\ description = << >>
    /\ parameters = << >>
    /\ param_types = << >>
    /\ attributes = << >>
    /\ attribute_types = << >>
    /\ exceptions = << >>
    /\ return_value = None
    /\ return_type = None
    /\ warnings = << >>
    /\ result = << >>
    /\ pc = "scan"

\* One call of parse() and no other, before or beside it.
OneCall ==
    /\ suspended = None
    /\ alone = << >>

\* main() is not called.
main_idle ==
    /\ opts = None
    /\ installed = {}
    /\ search = None
    /\ per_package_output = FALSE
    /\ package = 1
    /\ loaded = << >>
    /\ log = << >>
    /\ printed = << >>
    /\ exit_code = None
    /\ main_pc = "idle"

\* The parse() of the indentation-section parser is not called.
google_idle ==
    /\ sections = << >>
    /\ current_section = << >>
    /\ in_code_block = FALSE
    /\ index = 1

\* Nothing but parse() is called.
OnlyParse == main_idle /\ google_idle

Init ==
    /\ lines \in SeqsUpTo(ParamLines, MaxLines)
                \cup SeqsUpTo(ReturnLines, MaxLines)
                \cup SeqsUpTo(MixedLines, MaxMixed)
                \cup {RoundTripExample}
    /\ parent \in PoolParents
    /\ Start
    /\ OneCall
    /\ OnlyParse

-----------------------------------------------------------------------------
(* The loop of parse() *)

\* The loop is at a line whose first matching field type has this reader.
At(reader) ==
    /\ pc = "scan"
    /\ curr_line_index <= Len(lines)
    /\ ReaderFor(lines[curr_line_index]) = reader

\* The directive the reader called at the cursor parses.
parsed_directive == parse_directive(lines, curr_line_index)

\* The cursor left where the reader left it: the increment forgotten.
Advance_stays == curr_line_index' = parsed_directive.next_index

\* curr_line_index = reader(...); curr_line_index += 1
Advance == curr_line_index' = parsed_directive.next_index + 1

\* _read_parameter
read_parameter ==
    /\ At("_read_parameter")
    /\ LET pd == parsed_directive
           n == Len(pd.directive_parts)
       IN IF pd.invalid
          THEN /\ warnings' = warnings \o pd.warns
               /\ UNCHANGED parsed_values
          ELSE IF n # 2 /\ n # 3
          THEN /\ warnings' = Append(warnings,
                      "Failed to parse field directive from '" \o pd.line \o "'")
               /\ UNCHANGED parsed_values
          ELSE LET directive_type == IF n = 3 THEN Some(pd.directive_parts[2]) ELSE None
                   name == IF n = 3 THEN pd.directive_parts[3] ELSE pd.directive_parts[2]
               IN IF HasName(parameters, name)
                  THEN /\ warnings' = Append(warnings,
                              "Duplicate parameter entry for '" \o name \o "'")
                       /\ UNCHANGED parsed_values
                  ELSE LET ann == determine_param_annotation(parent, name,
                                                             directive_type, param_types)
                           default == determine_param_default(parent, name)
                       IN /\ parameters' = Append(parameters,
                                 [name |-> name, annotation |-> ann.annotation,
                                  description |-> pd.value, value |-> default])
                          /\ warnings' = warnings \o ann.warns
                          /\ UNCHANGED <<description, param_types, attributes,
                                         attribute_types, exceptions,
                                         return_value, return_type>>
    /\ Advance
    /\ UNCHANGED <<lines, parent, result, pc, suspended, alone, elsewhere>>

\* _read_parameter_type
read_parameter_type ==
    /\ At("_read_parameter_type")
    /\ LET pd == parsed_directive
           param_type == consolidate_descriptive_type(Strip(pd.value))
       IN IF pd.invalid
          THEN /\ warnings' = warnings \o pd.warns
               /\ UNCHANGED parsed_values
          ELSE IF Len(pd.directive_parts) # 2
          THEN /\ warnings' = Append(warnings,
                      "Failed to get parameter name from '" \o pd.line \o "'")
               /\ UNCHANGED parsed_values
          ELSE LET param_name == pd.directive_parts[2] IN
               /\ param_types' = DictSet(param_types, param_name, param_type)
               /\ IF ~HasName(parameters, param_name)
                  THEN UNCHANGED <<parameters, warnings>>
                  ELSE LET i == IndexOf(parameters, param_name) IN
                       IF parameters[i].annotation = None
                       THEN /\ parameters' =
                                   [parameters EXCEPT ![i].annotation = Some(param_type)]
                            /\ UNCHANGED warnings
                       ELSE /\ warnings' = Append(warnings,
                                   "Duplicate parameter information for '"
                                   \o param_name \o "'")
                            /\ UNCHANGED parameters
               /\ UNCHANGED <<description, attributes, attribute_types, exceptions,
                              return_value, return_type>>
    /\ Advance
    /\ UNCHANGED <<lines, parent, result, pc, suspended, alone, elsewhere>>

\* The attribute field read as a parameter field is: without a type of its
\* own, the annotation of the parent's argument of that name, and a warning
\* when there is none.
read_attribute_from_signature ==
    /\ At("_read_attribute")
    /\ LET pd == parsed_directive IN
       IF pd.invalid
       THEN /\ warnings' = warnings \o pd.warns
            /\ UNCHANGED parsed_values
       ELSE IF Len(pd.directive_parts) # 2
       THEN /\ warnings' = Append(warnings,
                   "Failed to parse field directive from '" \o pd.line \o "'")
            /\ UNCHANGED parsed_values
       ELSE LET name == pd.directive_parts[2]
                ann == determine_param_annotation(parent, name, None, attribute_types)
            IN IF HasName(attributes, name)
               THEN /\ warnings' = Append(warnings,
                           "Duplicate attribute entry for '" \o name \o "'")
                    /\ UNCHANGED parsed_values
               ELSE /\ attributes' = Append(attributes,
                           [name |-> name, annotation |-> ann.annotation,
                            description |-> pd.value])
                    /\ warnings' = warnings \o ann.warns
                    /\ UNCHANGED <<description, parameters, param_types,
                                   attribute_types, exceptions, return_value,
                                   return_type>>
    /\ Advance
    /\ UNCHANGED <<lines, parent, result, pc, suspended, alone, elsewhere>>

\* _read_attribute
read_attribute ==
    /\ At("_read_attribute")
    /\ LET pd == parsed_directive IN
       IF pd.invalid
       THEN /\ warnings' = warnings \o pd.warns
            /\ UNCHANGED parsed_values
       ELSE IF Len(pd.directive_parts) # 2
       THEN /\ warnings' = Append(warnings,
                   "Failed to parse field directive from '" \o pd.line \o "'")
            /\ UNCHANGED parsed_values
       ELSE LET name == pd.directive_parts[2]
                annotation == IF name \in DOMAIN attribute_types
                              THEN Some(attribute_types[name]) ELSE None
            IN IF HasName(attributes, name)
               THEN /\ warnings' = Append(warnings,
                           "Duplicate attribute entry for '" \o name \o "'")
                    /\ UNCHANGED parsed_values
               ELSE /\ attributes' = Append(attributes,
                           [name |-> name, annotation |-> annotation,
                            description |-> pd.value])
                    /\ UNCHANGED <<description, parameters, param_types,
                                   attribute_types, exceptions, return_value,
                                   return_type, warnings>>
    /\ Advance
    /\ UNCHANGED <<lines, parent, result, pc, suspended, alone, elsewhere>>

\* _read_attribute_type
read_attribute_type ==
    /\ At("_read_attribute_type")
    /\ LET pd == parsed_directive
           attribute_type == consolidate_descriptive_type(Strip(pd.value))
       IN IF pd.invalid
          THEN /\ warnings' = warnings \o pd.warns
               /\ UNCHANGED parsed_values
          ELSE IF Len(pd.directive_parts) # 2
          THEN /\ warnings' = Append(warnings,
                      "Failed to get attribute name from '" \o pd.line \o "'")
               /\ UNCHANGED parsed_values
          ELSE LET attribute_name == pd.directive_parts[2] IN
               /\ attribute_types' = DictSet(attribute_types, attribute_name,
                                             attribute_type)
               /\ IF ~HasName(attributes, attribute_name)
                  THEN UNCHANGED <<attributes, warnings>>
                  ELSE LET i == IndexOf(attributes, attribute_name) IN
                       IF attributes[i].annotation = None
                       THEN /\ attributes' =
                                   [attributes EXCEPT ![i].annotation = Some(attribute_type)]
                            /\ UNCHANGED warnings
                       ELSE /\ warnings' = Append(warnings,
                                   "Duplicate attribute information for '"
                                   \o attribute_name \o "'")
                            /\ UNCHANGED attributes
               /\ UNCHANGED <<description, parameters, param_types, exceptions,
                              return_value, return_type>>
    /\ Advance
    /\ UNCHANGED <<lines, parent, result, pc, suspended, alone, elsewhere>>

\* The exception field read as a parameter field is: a type already recorded
\* is not recorded again, and a warning says so.
read_exception_merged ==
    /\ At("_read_exception")
    /\ LET pd == parsed_directive IN
       IF pd.invalid
       THEN /\ warnings' = warnings \o pd.warns
            /\ UNCHANGED parsed_values
       ELSE IF Len(pd.directive_parts) = 2
       THEN IF \E k \in DOMAIN exceptions :
                   exceptions[k].annotation = pd.directive_parts[2]
            THEN /\ warnings' = Append(warnings,
                        "Duplicate exception entry for '" \o pd.directive_parts[2] \o "'")
                 /\ UNCHANGED parsed_values
            ELSE /\ exceptions' = Append(exceptions,
                        [annotation |-> pd.directive_parts[2], description |-> pd.value])
                 /\ UNCHANGED <<description, parameters, param_types, attributes,
                                attribute_types, return_value, return_type, warnings>>
       ELSE /\ warnings' = Append(warnings,
                   "Failed to parse exception directive from '" \o pd.line \o "'")
            /\ UNCHANGED parsed_values
    /\ Advance
    /\ UNCHANGED <<lines, parent, result, pc, suspended, alone, elsewhere>>

\* _read_exception
read_exception ==
    /\ At("_read_exception")
    /\ LET pd == parsed_directive IN
       IF pd.invalid
       THEN /\ warnings' = warnings \o pd.warns
            /\ UNCHANGED parsed_values
       ELSE IF Len(pd.directive_parts) = 2
       THEN /\ exceptions' = Append(exceptions,
                   [annotation |-> pd.directive_parts[2], description |-> pd.value])
            /\ UNCHANGED <<description, parameters, param_types, attributes,
                           attribute_types, return_value, return_type, warnings>>
       ELSE /\ warnings' = Append(warnings,
                   "Failed to parse exception directive from '" \o pd.line \o "'")
            /\ UNCHANGED parsed_values
    /\ Advance
    /\ UNCHANGED <<lines, parent, result, pc, suspended, alone, elsewhere>>

\* The annotation _read_return gives the return value (lines 346-354), and in
\* warns the warning it emitted: parent.returns raises AttributeError only
\* when there is no parent (or one without returns: a module, a class).
determine_return_annotation(par, rtype, line) ==
    IF rtype # None THEN [annotation |-> rtype, warns |-> << >>]
    ELSE IF par # None THEN [annotation |-> par.returns, warns |-> << >>]
    ELSE [annotation |-> None,
          warns |-> <<"No return type or annotation at '" \o line \o "'">>]

\* The return field read as a parameter field is: the first return value
\* kept, and a later one dropped with a warning.
read_return_first_wins ==
    /\ At("_read_return")
    /\ LET pd == parsed_directive IN
       IF pd.invalid
       THEN /\ warnings' = warnings \o pd.warns
            /\ UNCHANGED parsed_values
       ELSE IF return_value # None
       THEN /\ warnings' = Append(warnings, "Duplicate return entry")
            /\ UNCHANGED parsed_values
       ELSE LET ann == determine_return_annotation(parent, return_type, pd.line) IN
            /\ return_value' = Some([annotation |-> ann.annotation,
                                     description |-> pd.value])
            /\ warnings' = warnings \o ann.warns
            /\ UNCHANGED <<description, parameters, param_types, attributes,
                           attribute_types, exceptions, return_type>>
    /\ Advance
    /\ UNCHANGED <<lines, parent, result, pc, suspended, alone, elsewhere>>

\* _read_return
read_return ==
    /\ At("_read_return")
    /\ LET pd == parsed_directive IN
       IF pd.invalid
       THEN /\ warnings' = warnings \o pd.warns
            /\ UNCHANGED parsed_values
       ELSE LET ann == determine_return_annotation(parent, return_type, pd.line) IN
            /\ return_value' = Some([annotation |-> ann.annotation,
                                     description |-> pd.value])
            /\ warnings' = warnings \o ann.warns
            /\ UNCHANGED <<description, parameters, param_types, attributes,
                           attribute_types, exceptions, return_type>>
    /\ Advance
    /\ UNCHANGED <<lines, parent, result, pc, suspended, alone, elsewhere>>

\* The return value read earlier left as it is: the backfill forgotten.
backfill_return_skipped(ret, rtype) == ret

\* A return value made up from the return type when none was read.
backfill_return_creates(ret, rtype) ==
    IF ret # None THEN Some([Val(ret) EXCEPT !.annotation = Some(rtype)])
    ELSE Some([annotation |-> Some(rtype), description |-> ""])

\* Lines 378-380 of _read_return_type: the return value read earlier, if any,
\* takes the return type as its annotation.
backfill_return(ret, rtype) ==
    IF ret # None THEN Some([Val(ret) EXCEPT !.annotation = Some(rtype)])
    ELSE ret

\* The return type written to the parent as well: the return annotation of
\* the signature overwritten by the docstring's.
read_return_type_writes_parent ==
    /\ At("_read_return_type")
    /\ LET pd == parsed_directive IN
       IF pd.invalid
       THEN /\ warnings' = warnings \o pd.warns
            /\ UNCHANGED parsed_values
            /\ UNCHANGED parent
       ELSE LET rtype == consolidate_descriptive_type(Strip(pd.value)) IN
            /\ return_type' = Some(rtype)
            /\ return_value' = backfill_return(return_value, rtype)
            /\ parent' = IF parent # None
                         THEN [parent EXCEPT !.returns = Some(rtype)]
                         ELSE parent
            /\ UNCHANGED <<description, parameters, param_types, attributes,
                           attribute_types, exceptions, warnings>>
    /\ Advance
    /\ UNCHANGED <<lines, result, pc, suspended, alone, elsewhere>>

\* _read_return_type
read_return_type ==
    /\ At("_read_return_type")
    /\ LET pd == parsed_directive IN
       IF pd.invalid
       THEN /\ warnings' = warnings \o pd.warns
            /\ UNCHANGED parsed_values
       ELSE LET rtype == consolidate_descriptive_type(Strip(pd.value)) IN
            /\ return_type' = Some(rtype)
            /\ return_value' = backfill_return(return_value, rtype)
            /\ UNCHANGED <<description, parameters, param_types, attributes,
                           attribute_types, exceptions, warnings>>
    /\ Advance
    /\ UNCHANGED <<lines, parent, result, pc, suspended, alone, elsewhere>>

\* The line appended without its leading blanks.
append_description_stripped ==
    /\ At("")
    /\ description' = Append(description, LStrip(lines[curr_line_index]))
    /\ curr_line_index' = curr_line_index + 1
    /\ UNCHANGED <<lines, parent, parameters, param_types, attributes,
                   attribute_types, exceptions, return_value, return_type,
                   warnings, result, pc, suspended, alone, elsewhere>>

\* The else branch of the for loop: no field type matches the line.
append_description ==
    /\ At("")
    /\ description' = Append(description, lines[curr_line_index])
    /\ curr_line_index' = curr_line_index + 1
    /\ UNCHANGED <<lines, parent, parameters, param_types, attributes,
                   attribute_types, exceptions, return_value, return_type,
                   warnings, result, pc, suspended, alone, elsewhere>>

\* The loop ends: return _parsed_values_to_sections(parsed_values)
return_sections ==
    /\ pc = "scan"
    /\ curr_line_index > Len(lines)
    /\ result' = parsed_values_to_sections(description, parameters, attributes,
                                           return_value, exceptions)
    /\ pc' = "done"
    /\ UNCHANGED <<lines, parent, curr_line_index, description, parameters,
                   param_types, attributes, attribute_types, exceptions,
                   return_value, return_type, warnings, suspended, alone, elsewhere>>

Next ==
    \/ read_parameter_type
    \/ read_parameter
    \/ read_attribute_type
    \/ read_attribute
    \/ read_exception
    \/ read_return
    \/ read_return_type
    \/ append_description
    \/ return_sections

Spec == Init /\ [][Next]_vars

-----------------------------------------------------------------------------
(* Docstrings of one kind of line each *)

\* Text, with blank and whitespace-only lines.
TextLines ==
    { "",
      "  ",
      "Some text.",
      "  More text." }

\* A field, lines that continue it, and lines that start with ":": one that
\* no field type matches, and a field.
ContinuationLines ==
    { ":param x: the x value.",
      "  continued here.",
      "  :rtype: indented",
      ":meta: not a field",
      ":rtype: int" }

\* Attributes and their types; the signature of a parent has an x too.
AttributeLines ==
    { ":var x: an attribute.",
      ":ivar x: again.",
      ":cvar y: this or that.",
      ":vartype x: int",
      ":vartype x: str or int or None" }

\* Exceptions, one type twice.
ExceptionLines ==
    { ":raises E: when wrong",
      ":raise E: again",
      ":except F: other",
      ":raises: no type" }

\* Types and descriptions with " or " in them.
DescriptiveLines ==
    { ":param str x: one or two.",
      ":type x: int or None",
      ":return: yes or no.",
      ":rtype: A or B or C" }

\* The parents, and a function without arguments.
FieldParents ==
    PoolParents \cup {[arguments |-> << >>, returns |-> None]}

FieldInit ==
    /\ lines \in SeqsUpTo(TextLines, MaxLines)
                \cup SeqsUpTo(ContinuationLines, MaxLines)
                \cup SeqsUpTo(AttributeLines, MaxLines)
                \cup SeqsUpTo(ExceptionLines, MaxLines)
                \cup SeqsUpTo(DescriptiveLines, MaxLines)
                \cup SeqsUpTo(MalformedLines, MaxMixed)
    /\ parent \in FieldParents
    /\ Start
    /\ OneCall
    /\ OnlyParse

FieldSpec == FieldInit /\ [][Next]_vars

\* A reader of the loop of parse(): the body of the for loop, at a field.
read_field ==
    \/ read_parameter_type
    \/ read_parameter
    \/ read_attribute_type
    \/ read_attribute
    \/ read_exception
    \/ read_return
    \/ read_return_type

\* The loop is at a line that a field type matches: a reader is called.
AtField ==
    /\ pc = "scan"
    /\ curr_line_index <= Len(lines)
    /\ ReaderFor(lines[curr_line_index]) # ""

\* WF_vars(read_field), with ENABLED <<read_field>>_vars written as the
\* guard of the readers, AtField.
ReaderFairness == []<>(~AtField) \/ []<><<read_field>>_vars

\* parse() is a loop that nothing suspends: a step that can be taken is taken.
FairFieldSpec ==
    /\ FieldSpec
    /\ WF_vars(append_description)
    /\ WF_vars(return_sections)
    /\ ReaderFairness

-----------------------------------------------------------------------------
(* Two calls of parse() *)

\* The locals of the running call: docstring, curr_line_index,
\* parsed_values, the warnings of its docstring and what it returns.
call ==
    [lines |-> lines, parent |-> parent, curr_line_index |-> curr_line_index,
     description |-> description, parameters |-> parameters,
     param_types |-> param_types, attributes |-> attributes,
     attribute_types |-> attribute_types, exceptions |-> exceptions,
     return_value |-> return_value, return_type |-> return_type,
     warnings |-> warnings, result |-> result, pc |-> pc]

\* The locals of a call of parse() on a docstring, as it starts:
\* parsed_values = ParsedValues(), whose fields are made by default_factory,
\* and curr_line_index = 0.
new_call(ls, par) ==
    [lines |-> ls, parent |-> par, curr_line_index |-> 1,
     description |-> << >>, parameters |-> << >>, param_types |-> << >>,
     attributes |-> << >>, attribute_types |-> << >>, exceptions |-> << >>,
     return_value |-> None, return_type |-> None,
     warnings |-> << >>, result |-> << >>, pc |-> "scan"]

\* The call c is the running one from now on.
Resume(c) ==
    /\ lines' = c.lines
    /\ parent' = c.parent
    /\ curr_line_index' = c.curr_line_index
    /\ description' = c.description
    /\ parameters' = c.parameters
    /\ param_types' = c.param_types
    /\ attributes' = c.attributes
    /\ attribute_types' = c.attribute_types
    /\ exceptions' = c.exceptions
    /\ return_value' = c.return_value
    /\ return_type' = c.return_type
    /\ warnings' = c.warnings
    /\ result' = c.result
    /\ pc' = c.pc

\* The longest docstring of a call that runs beside another, in lines.
MaxPairLines == 1

\* The lines of the first docstring: one for each reader, and text.
PairLines ==
    { "Some text.",
      ":param x: the x value.",
      ":type x: str",
      ":var a: an attribute.",
      ":vartype a: int",
      ":raises E: when wrong",
      ":return: the result.",
      ":rtype: int" }

\* The lines of the second docstring, that of a function.
SecondLines ==
    { "Other text.",
      ":param y: the y value.",
      ":rtype: str" }

SecondParents == PoolParents \ {None}

PairInit ==
    /\ lines \in SeqsUpTo(PairLines, MaxPairLines)
    /\ parent \in PoolParents
    /\ Start
    /\ OneCall
    /\ OnlyParse

\* parse() has returned, and is called on a second docstring.
next_call ==
    /\ pc = "done"
    /\ suspended = None
    /\ alone = << >>
    /\ alone' = <<call>>
    /\ \E ls \in SeqsUpTo(SecondLines, MaxPairLines), par \in SecondParents :
           Resume(new_call(ls, par))
    /\ UNCHANGED <<suspended, elsewhere>>

\* parse() has returned for the second docstring, and two threads call it,
\* one on each of the two docstrings.
start_pair ==
    /\ pc = "done"
    /\ suspended = None
    /\ Len(alone) = 1
    /\ alone' = Append(alone, call)
    /\ Resume(new_call(alone[1].lines, alone[1].parent))
    /\ suspended' = Some(new_call(lines, parent))
    /\ UNCHANGED elsewhere

\* A switch of threads that leaves the description where it is: a list that
\* the calls share, as a class attribute of ParsedValues would be.
switch_shared_description ==
    /\ suspended # None
    /\ suspended' = Some(call)
    /\ Resume([Val(suspended) EXCEPT !.description = description])
    /\ UNCHANGED <<alone, elsewhere>>

\* The interpreter switches threads: the locals of the running call wait,
\* those of the other call are the running ones.
switch ==
    /\ suspended # None
    /\ suspended' = Some(call)
    /\ Resume(Val(suspended))
    /\ UNCHANGED <<alone, elsewhere>>

PairNext ==
    \/ Next
    \/ next_call
    \/ start_pair
    \/ switch

PairSpec == PairInit /\ [][PairNext]_vars

-----------------------------------------------------------------------------
(* The fields of the input docstring *)

\* A line that a field type matches starts with ":", so no continuation
\* consolidation absorbs it: the fields of the docstring are its lines that
\* a field type matches, each read by the reader of that field type.
FieldAt(i, reader) == i \in DOMAIN lines /\ ReaderFor(lines[i]) = reader

DirectiveAt(i) == parse_directive(lines, i)

WordCount(i) == Len(DirectiveAt(i).directive_parts)

\* A parameter field that splits in three parts, with 2 or 3 directive words.
WellFormedParamAt(i) ==
    /\ FieldAt(i, "_read_parameter")
    /\ ~DirectiveAt(i).invalid
    /\ WordCount(i) \in {2, 3}

ParamNameAt(i) == DirectiveAt(i).directive_parts[WordCount(i)]

InlineTypeAt(i) ==
    IF WordCount(i) = 3 THEN Some(DirectiveAt(i).directive_parts[2]) ELSE None

\* A parameter-type field that splits in three parts, with 2 directive words.
WellFormedTypeAt(i) ==
    /\ FieldAt(i, "_read_parameter_type")
    /\ ~DirectiveAt(i).invalid
    /\ WordCount(i) = 2

TypeNameAt(i) == DirectiveAt(i).directive_parts[2]

\* A return field, a return-type field, that splits in three parts.
WellFormedReturnAt(i) == FieldAt(i, "_read_return") /\ ~DirectiveAt(i).invalid

WellFormedReturnTypeAt(i) == FieldAt(i, "_read_return_type") /\ ~DirectiveAt(i).invalid

ParamFields == {i \in DOMAIN lines : WellFormedParamAt(i)}

\* The first parameter field of each name.
FirstParamFields ==
    {i \in ParamFields : \A j \in ParamFields : j < i => ParamNameAt(j) # ParamNameAt(i)}

\* The k-th smallest element of a set of indexes.
Nth(S, k) == CHOOSE i \in S : Cardinality({j \in S : j <= i}) = k

\* The sections of the result of a kind, and the warnings with a prefix.
SectionsOf(kind) == {k \in DOMAIN result : result[k].kind = kind}

WarningsWith(prefix) == {k \in DOMAIN warnings : StartsWith(warnings[k], prefix)}

WarningsEqual(message) == {k \in DOMAIN warnings : warnings[k] = message}

-----------------------------------------------------------------------------
(* Section order *)

KindRank(kind) ==
    CASE kind = "text" -> 1
      [] kind = "arguments" -> 2
      [] kind = "attributes" -> 3
      [] kind = "returns" -> 4
      [] kind = "raises" -> 5
      [] OTHER -> 0

\* C1: the result of a directive-field parse starts with exactly one text
\* section, followed by at most one section each of arguments, attributes,
\* returns and raises, in that order, whatever the order of the fields in the
\* docstring.
C1_SectionOrder ==
    pc = "done" =>
        /\ Len(result) >= 1
        /\ result[1].kind = "text"
        /\ \A k \in DOMAIN result : KindRank(result[k].kind) >= 1
        /\ \A k, m \in DOMAIN result :
               k < m => KindRank(result[k].kind) < KindRank(result[m].kind)

\* A docstring whose return field precedes its parameter field, parsed: the
\* arguments section still precedes the returns section.
C1_Witness ==
    /\ pc = "done"
    /\ Len(lines) = 2
    /\ FieldAt(1, "_read_return")
    /\ FieldAt(2, "_read_parameter")
    /\ Len(result) = 3
    /\ result[2].kind = "arguments"
    /\ result[3].kind = "returns"

-----------------------------------------------------------------------------
(* The merge of parameter fields *)

DuplicateEntry(name) == "Duplicate parameter entry for '" \o name \o "'"

\* The result of a docstring with well-formed parameter fields: one arguments
\* section, whose entries are the first fields of each name, in order, with
\* the description of that field and the default of the signature, and one
\* duplicate-parameter warning for each field that repeats a name.
C2_Merged ==
    ParamFields # {} =>
        /\ Cardinality(SectionsOf("arguments")) = 1
        /\ LET args == result[CHOOSE k \in SectionsOf("arguments") : TRUE].value IN
           /\ Len(args) = Cardinality(FirstParamFields)
           /\ \A k \in DOMAIN args :
                  LET i == Nth(FirstParamFields, k) IN
                  /\ args[k].name = ParamNameAt(i)
                  /\ args[k].description = DirectiveAt(i).value
                  /\ args[k].value =
                         IF HasArgument(parent, LStrip(ParamNameAt(i)))
                         THEN Argument(parent, LStrip(ParamNameAt(i))).default
                         ELSE None
        /\ Cardinality(WarningsWith("Duplicate parameter entry for"))
               = Cardinality(ParamFields) - Cardinality(FirstParamFields)
        /\ \A i \in ParamFields :
               Cardinality(WarningsEqual(DuplicateEntry(ParamNameAt(i))))
                   = Cardinality({j \in ParamFields : ParamNameAt(j) = ParamNameAt(i)}) - 1

\* Reading a parameter field that repeats a name changes no entry, and emits
\* exactly the duplicate-parameter warning.
C2_RepeatedName ==
    ( /\ At("_read_parameter")
      /\ WellFormedParamAt(curr_line_index)
      /\ HasName(parameters, ParamNameAt(curr_line_index)) )
    => /\ parameters' = parameters
       /\ warnings' = Append(warnings, DuplicateEntry(ParamNameAt(curr_line_index)))

\* C2: for every docstring with N well-formed parameter fields, the result has
\* exactly one arguments section whose entries are the distinct names in order
\* of first occurrence; each repeated name adds no entry, leaves the first
\* occurrence's annotation, description and default unchanged, and emits
\* exactly one duplicate-parameter diagnostic.
C2_MergeInvariant ==
    /\ [](pc = "done" => C2_Merged)
    /\ [][C2_RepeatedName]_vars

\* A docstring with three parameter fields, two of them of the same name,
\* parsed: two entries and one duplicate-parameter warning.
C2_Witness ==
    /\ pc = "done"
    /\ Cardinality(ParamFields) = 3
    /\ Cardinality(FirstParamFields) = 2
    /\ Cardinality(SectionsOf("arguments")) = 1
    /\ Len(result[2].value) = 2
    /\ Cardinality(WarningsWith("Duplicate parameter entry for")) = 1

-----------------------------------------------------------------------------
(* The annotation of a parameter *)

DuplicateInformation(name) == "Duplicate parameter information for '" \o name \o "'"

NoMatchingParameter(name) == "No matching parameter for '" \o name \o "'"

ParamFieldsFor(name) == {i \in ParamFields : ParamNameAt(i) = name}

TypeFieldsFor(name) ==
    {i \in DOMAIN lines : WellFormedTypeAt(i) /\ TypeNameAt(i) = name}

\* The entry of a name in the arguments section of the result.
ArgumentsValue == result[CHOOSE k \in SectionsOf("arguments") : TRUE].value

EntryOf(name) == ArgumentsValue[IndexOf(ArgumentsValue, name)]

\* The docstring has one parameter field and one parameter-type field of str
\* for x, and the signature annotates x with int.
C3_Case ==
    /\ pc = "done"
    /\ HasArgument(parent, "x")
    /\ Argument(parent, "x").annotation = Some("int")
    /\ Cardinality(ParamFieldsFor("x")) = 1
    /\ Cardinality(TypeFieldsFor("x")) = 1
    /\ \A i \in TypeFieldsFor("x") : DirectiveAt(i).value = "str"

\* C3: for a parameter present in the Parent Signature with annotation int, and
\* a docstring containing a parameter field and a parameter-type field of str
\* for the same name, in any order of the two fields, the resulting entry's
\* annotation is str, and a duplicate-information diagnostic is emitted only if
\* the parameter field also carries an inline type.
C3_AnnotationPrecedence ==
    C3_Case =>
        LET i == CHOOSE j \in ParamFieldsFor("x") : TRUE IN
        /\ InlineTypeAt(i) = None => EntryOf("x").annotation = Some("str")
        /\ WarningsEqual(DuplicateInformation("x")) # {} => InlineTypeAt(i) # None

-----------------------------------------------------------------------------
(* The minimal directive docstring *)

C4_Case == pc = "done" /\ lines = RoundTripExample /\ parent = None

C4_Sections ==
    /\ Cardinality(SectionsOf("arguments")) = 1
    /\ Len(ArgumentsValue) = 1
    /\ ArgumentsValue[1].name = "x"
    /\ ArgumentsValue[1].annotation = Some("int")
    /\ ArgumentsValue[1].description = "the x value."
    /\ Cardinality(SectionsOf("returns")) = 1
    /\ \A k \in SectionsOf("returns") :
           result[k].value = [annotation |-> Some("int"), description |-> "the result."]

\* C4 as stated: the four-line docstring ':param x: the x value.' /
\* ':type x: int' / ':returns: the result.' / ':rtype: int' with no Parent
\* Signature produces one arguments section with the single entry {x, int,
\* 'the x value.'}, one returns section {int, 'the result.'}, and zero
\* diagnostics.
C4_RoundTripNoDiagnostics ==
    C4_Case => C4_Sections /\ warnings = << >>

\* C4 as amended: the same sections, and two diagnostics, each emitted when a
\* field is read before its type field with no Parent Signature to fall back
\* on: no matching parameter for x, and no return type or annotation.
C4_RoundTrip ==
    C4_Case =>
        /\ C4_Sections
        /\ warnings = << NoMatchingParameter("x"),
                         "No return type or annotation at ':returns: the result.'" >>

\* The four-line docstring, parsed with no parent.
C4_Witness == C4_Case /\ Len(result) = 3

-----------------------------------------------------------------------------
(* In-line type and parameter-type field *)

\* C5: when the parameter field of an entry carries an inline type and one
\* parameter-type field exists for the same name, the final annotation of the
\* entry is the inline type and exactly one duplicate-information diagnostic is
\* emitted for the name, whether the parameter-type field comes before or after
\* the parameter field.
C5_InlineTypeWins ==
    pc = "done" =>
        \A i \in FirstParamFields :
            (InlineTypeAt(i) # None /\ Cardinality(TypeFieldsFor(ParamNameAt(i))) = 1)
            => /\ EntryOf(ParamNameAt(i)).annotation = InlineTypeAt(i)
               /\ Cardinality(WarningsEqual(DuplicateInformation(ParamNameAt(i)))) = 1

\* A parameter field with an in-line type followed by a parameter-type field of
\* another type for the same name, parsed.
C5_Witness ==
    /\ pc = "done"
    /\ Len(lines) = 2
    /\ WellFormedParamAt(1)
    /\ InlineTypeAt(1) = Some("int")
    /\ WellFormedTypeAt(2)
    /\ TypeNameAt(2) = ParamNameAt(1)
    /\ DirectiveAt(2).value = "str"
    /\ EntryOf(ParamNameAt(1)).annotation = Some("int")
    /\ warnings = <<DuplicateInformation(ParamNameAt(1))>>

-----------------------------------------------------------------------------
(* The return value and the return type *)

ReturnFields == {i \in DOMAIN lines : WellFormedReturnAt(i)}

\* The return-type fields the scan has read: those before the cursor.
ReturnTypesRead ==
    {i \in DOMAIN lines : i < curr_line_index /\ WellFormedReturnTypeAt(i)}

Last(S) == CHOOSE i \in S : \A j \in S : j <= i

\* The value a return-type field records.
ReturnTypeAt(i) == consolidate_descriptive_type(DirectiveAt(i).value)

\* C6: in every state of the scan in which both a return entry and a return
\* type have been recorded, the return entry's annotation is the most recently
\* recorded return type, that of the last return-type field read, whatever its
\* position relative to the return fields and whatever the return annotation
\* of the Parent Signature; the returns section of the result carries it.
C6_ReturnTypeWins ==
    /\ return_type =
           IF ReturnTypesRead = {} THEN None
           ELSE Some(ReturnTypeAt(Last(ReturnTypesRead)))
    /\ (return_value # None /\ return_type # None)
           => Val(return_value).annotation = return_type
    /\ (pc = "done" /\ return_value # None /\ return_type # None)
           => \A k \in SectionsOf("returns") : result[k].value.annotation = return_type

\* A return field between two return-type fields of different types, parsed
\* with a parent whose return annotation is a third type: the section's
\* annotation is the last return type.
C6_Witness ==
    /\ pc = "done"
    /\ lines = <<":rtype: int", ":return: the result.", ":rtype: str or None">>
    /\ parent # None
    /\ parent.returns = Some("bool")
    /\ Len(result) = 2
    /\ result[2].value.annotation = Some("str | None")

\* The result of a docstring with several well-formed return fields.
C7_LastReturn ==
    Cardinality(ReturnFields) >= 2 =>
        /\ Cardinality(SectionsOf("returns")) = 1
        /\ \A k \in SectionsOf("returns") :
               result[k].value.description = DirectiveAt(Last(ReturnFields)).value
        /\ WarningsWith("Duplicate return") = {}

\* Reading a well-formed return field when a return value is recorded
\* replaces the description, and emits no warning but the one of a missing
\* annotation.
C7_Repetition ==
    ( /\ At("_read_return")
      /\ WellFormedReturnAt(curr_line_index)
      /\ return_value # None )
    => /\ return_value' # None
       /\ Val(return_value').description = DirectiveAt(curr_line_index).value
       /\ \/ warnings' = warnings
          \/ warnings' = Append(warnings, "No return type or annotation at '"
                                          \o DirectiveAt(curr_line_index).line \o "'")

\* C7: when a docstring has several well-formed return fields, the returns
\* section holds the description of the last one read, exactly one returns
\* section is emitted, and no duplicate diagnostic is emitted for the
\* repetition.
C7_LastReturnWins ==
    /\ [](pc = "done" => C7_LastReturn)
    /\ [][C7_Repetition]_vars

\* Two return fields of different descriptions, parsed: the section holds the
\* second description.
C7_Witness ==
    /\ pc = "done"
    /\ lines = <<":return: the result.", ":returns: another.">>
    /\ parent # None
    /\ Len(result) = 2
    /\ result[2].kind = "returns"
    /\ result[2].value.description = "another."
    /\ warnings = << >>

\* C9: a return field read when no return type has been recorded and the
\* Parent Signature supplies no return annotation (signature absent, or
\* present with its return annotation unset) produces a return entry with no
\* annotation and emits a diagnostic.
C9_MissingReturnAnnotation ==
    [][ ( /\ At("_read_return")
          /\ WellFormedReturnAt(curr_line_index)
          /\ return_type = None
          /\ (parent = None \/ parent.returns = None) )
        => /\ return_value' = Some([annotation |-> None,
                                    description |-> DirectiveAt(curr_line_index).value])
           /\ Len(warnings') = Len(warnings) + 1 ]_vars

-----------------------------------------------------------------------------
(* Missing cross-reference *)

\* C8: a parameter field with no inline type and no parameter-type field seen
\* before it, whose name is not yet an entry and has no Parent Signature entry
\* (no signature at all, or the name absent from it), produces an entry with
\* annotation unset and default unset, and emits exactly one 'No matching
\* parameter' diagnostic: the lookup of the default emits none.
C8_MissingParameter ==
    [][ ( /\ At("_read_parameter")
          /\ WellFormedParamAt(curr_line_index)
          /\ InlineTypeAt(curr_line_index) = None
          /\ ParamNameAt(curr_line_index) \notin DOMAIN param_types
          /\ ~HasName(parameters, ParamNameAt(curr_line_index))
          /\ \/ parent = None
             \/ \A k \in DOMAIN parent.arguments :
                    parent.arguments[k].name # ParamNameAt(curr_line_index) )
        => /\ parameters' = Append(parameters,
                  [name |-> ParamNameAt(curr_line_index),
                   annotation |-> None,
                   description |-> DirectiveAt(curr_line_index).value,
                   value |-> None])
           /\ warnings' = Append(warnings,
                  NoMatchingParameter(ParamNameAt(curr_line_index))) ]_vars

\* A parameter field for x read with a signature that has no x.
C8_Witness ==
    /\ parent # None
    /\ \A k \in DOMAIN parent.arguments : parent.arguments[k].name # "x"
    /\ Len(lines) >= 1
    /\ lines[1] = ":param x: the x value."
    /\ curr_line_index = 2
    /\ parameters = <<[name |-> "x", annotation |-> None,
                       description |-> "the x value.", value |-> None]>>
    /\ warnings = <<NoMatchingParameter("x")>>

-----------------------------------------------------------------------------
(* Malformed fields *)

\* The count n of directive words is one the reader rejects.
InvalidWordCount(reader, n) ==
    CASE reader = "_read_parameter" -> n # 2 /\ n # 3
      [] reader \in {"_read_parameter_type", "_read_attribute",
                     "_read_attribute_type", "_read_exception"} -> n # 2
      [] OTHER -> FALSE

\* The line at i is a field that does not split in three parts, or whose
\* count of directive words is invalid for its kind.
MalformedAt(i) ==
    /\ i \in DOMAIN lines
    /\ ReaderFor(lines[i]) # ""
    /\ \/ Len(Split(DirectiveAt(i).line, ":", 2)) # 3
       \/ InvalidWordCount(ReaderFor(lines[i]), WordCount(i))

\* C10: reading a malformed field emits one diagnostic, leaves every
\* accumulated collection (text, parameters, parameter types, attributes,
\* attribute types, exceptions, return entry, return type) unchanged, and the
\* scan continues from the line after the field's consolidated line.
C10_MalformedField ==
    [][ (pc = "scan" /\ MalformedAt(curr_line_index))
        => /\ parsed_values' = parsed_values
           /\ Len(warnings') = Len(warnings) + 1
           /\ SubSeq(warnings', 1, Len(warnings)) = warnings
           /\ pc' = "scan"
           /\ curr_line_index' = DirectiveAt(curr_line_index).next_index + 1
           /\ curr_line_index' > curr_line_index ]_vars

\* An attribute field with two names read after a parameter field: the
\* parameter entry is kept, and the only warning is that of the attribute
\* field.
C10_Witness ==
    /\ lines = <<":param x: the x value.", ":var a b: two names">>
    /\ HasArgument(parent, "x")
    /\ curr_line_index = 3
    /\ pc = "scan"
    /\ Len(parameters) = 1
    /\ attributes = << >>
    /\ warnings = <<"Failed to parse field directive from ':var a b: two names'">>

-----------------------------------------------------------------------------
(* C11: parse() terminates *)

\* The parents of this claim: none, a function without arguments, and a
\* function whose arguments do not have the names of the fields.
ParentWithoutArguments == parent # None /\ parent.arguments = << >>

\* An iteration of the loop leaves the cursor after where it was.
C11_CursorAdvances ==
    pc = "scan" /\ pc' = "scan" => curr_line_index' > curr_line_index

\* No line stops the loop before it returns: until parse() has returned, the
\* loop is at a field, at a line of text, or after the last line.
C11_NeverStuck ==
    \/ pc = "done"
    \/ AtField
    \/ At("")
    \/ pc = "scan" /\ curr_line_index = Len(lines) + 1

\* parse() has returned a list of sections, the text section first.
C11_Returned ==
    /\ pc = "done"
    /\ Len(result) >= 1
    /\ result[1].kind = "text"

\* C11: for every sequence of lines and every parent, the cursor of the loop
\* strictly increases at every iteration, no line (a malformed field
\* included) leaves parse() stuck, and parse() ends having returned a list of
\* sections.
C11_Terminates ==
    /\ [][C11_CursorAdvances]_vars
    /\ []C11_NeverStuck
    /\ <>C11_Returned

\* parse() has returned for a docstring whose only lines are malformed
\* fields, with a parent that has no arguments.
C11_Witness ==
    /\ C11_Returned
    /\ Len(lines) = MaxMixed
    /\ \A i \in DOMAIN lines : lines[i] \in MalformedLines
    /\ ParentWithoutArguments
    /\ Len(warnings) = MaxMixed

-----------------------------------------------------------------------------
(* C12, C13: the text section *)

\* A line with nothing but blanks in it, the empty line included.
BlankLine(line) == \A k \in 1..Len(line) : Char(line, k) \in Whitespace

\* The docstring is empty, or all its lines are blank.
AllBlank == \A i \in DOMAIN lines : BlankLine(lines[i])

\* C12: the parse of an empty docstring, or of one whose lines are all empty
\* or whitespace-only, returns exactly one section, the text section with the
\* empty string as value, and emits no diagnostic.
C12_BlankDocstring ==
    pc = "done" /\ AllBlank =>
        /\ result = <<[kind |-> "text", value |-> ""]>>
        /\ warnings = << >>

\* parse() has returned for a docstring of empty and whitespace-only lines.
C12_Witness ==
    /\ pc = "done"
    /\ AllBlank
    /\ Len(lines) = MaxLines
    /\ \E i \in DOMAIN lines : lines[i] = ""
    /\ \E i \in DOMAIN lines : lines[i] # ""

\* The lines without the blank lines they start with, and without those they
\* end with.
RECURSIVE DropLeadingBlank(_)
DropLeadingBlank(ls) ==
    IF ls # << >> /\ BlankLine(Head(ls)) THEN DropLeadingBlank(Tail(ls)) ELSE ls

RECURSIVE DropTrailingBlank(_)
DropTrailingBlank(ls) ==
    IF ls # << >> /\ BlankLine(ls[Len(ls)])
    THEN DropTrailingBlank(SubSeq(ls, 1, Len(ls) - 1))
    ELSE ls

Trimmed(ls) == DropTrailingBlank(DropLeadingBlank(ls))

\* No line of the docstring starts with ":": all of it is text.
TextOnly == \A i \in DOMAIN lines : ~StartsWith(lines[i], ":")

\* The value of the text section is the text lines, trimmed, joined by
\* newlines; the text lines of a docstring without ":" lines are its lines.
C13_TextValue ==
    pc = "done" =>
        /\ result[1].kind = "text"
        /\ result[1].value = Join(Trimmed(description), "\n")
        /\ TextOnly => description = lines

\* Stripping the stripped lines again changes nothing.
C13_Idempotent ==
    strip_blank_lines(strip_blank_lines(description))
        = strip_blank_lines(description)

\* C13: the value of the text section is the accumulated text lines, joined
\* by newlines, after the removal of the longest run of blank lines at their
\* start and of the longest run at their end; blank lines between two lines
\* with content stay where they are; stripping is idempotent.
C13_StripBlankLines == C13_TextValue /\ C13_Idempotent

\* parse() has returned a text section that keeps the blank line between its
\* two lines with content.
C13_Witness ==
    /\ pc = "done"
    /\ Len(description) = 3
    /\ ~BlankLine(description[1])
    /\ BlankLine(description[2])
    /\ ~BlankLine(description[3])
    /\ result[1].value = description[1] \o "\n" \o description[2] \o "\n" \o description[3]

-----------------------------------------------------------------------------
(* C14: continuation lines *)

\* The first line after line i that starts with ":", and the first one after
\* line i that a field type matches; the line after the last when none does.
NextColonLine(i) ==
    LET later == {j \in (i + 1)..Len(lines) : StartsWith(lines[j], ":")} IN
    IF later = {} THEN Len(lines) + 1
    ELSE CHOOSE j \in later : \A k \in later : j <= k

NextMarkerLine(i) ==
    LET later == {j \in (i + 1)..Len(lines) : ReaderFor(lines[j]) # ""} IN
    IF later = {} THEN Len(lines) + 1
    ELSE CHOOSE j \in later : \A k \in later : j <= k

\* Lines i to stop - 1, each without its leading blanks, joined by one space.
LogicalLine(i, stop) ==
    Join([k \in 1..(stop - i) |-> LStrip(lines[i + k - 1])], " ")

\* The field at the cursor is read as the lines up to stop, and the reader
\* leaves the cursor on the line before stop.
ConsolidatedUpTo(stop) ==
    /\ parsed_directive.line = LogicalLine(curr_line_index, stop)
    /\ parsed_directive.next_index = stop - 1

\* The claim as stated: the logical line of a field ends before the next line
\* that a field type matches.
C14_EndsAtNextMarker ==
    /\ [](AtField => ConsolidatedUpTo(NextMarkerLine(curr_line_index)))
    /\ [][AtField => curr_line_index' = NextMarkerLine(curr_line_index)]_vars

\* C14: the logical line of a field matched at line i is line i joined by
\* single spaces with every following line up to, but not including, the next
\* line that starts with ":" (whether or not a field type matches it), each
\* line without its leading blanks; the reader leaves the cursor on the line
\* before that one, on the last line when there is none, and the loop goes on
\* at that line.
C14_Continuation ==
    /\ [](AtField => ConsolidatedUpTo(NextColonLine(curr_line_index)))
    /\ [][AtField => curr_line_index' = NextColonLine(curr_line_index)]_vars

\* A parameter field was read with its continuation line, up to a line that
\* starts with ":" and that no field type matches, where the loop now is.
C14_Witness ==
    /\ pc = "scan"
    /\ Len(lines) = 3
    /\ curr_line_index = 3
    /\ StartsWith(lines[3], ":")
    /\ ReaderFor(lines[3]) = ""
    /\ ~StartsWith(lines[2], ":")
    /\ Len(parameters) = 1
    /\ parameters[1].description = "the x value. continued here."

-----------------------------------------------------------------------------
(* C15: the annotation of an attribute *)

\* An attribute field, an attribute-type field, that splits in three parts,
\* with 2 directive words.
WellFormedAttributeAt(i) ==
    /\ FieldAt(i, "_read_attribute")
    /\ ~DirectiveAt(i).invalid
    /\ WordCount(i) = 2

WellFormedAttributeTypeAt(i) ==
    /\ FieldAt(i, "_read_attribute_type")
    /\ ~DirectiveAt(i).invalid
    /\ WordCount(i) = 2

\* The name of the attribute-type field at line i, and its value with every
\* " or " of it written " | ".
AttributeTypeNameAt(i) == DirectiveAt(i).directive_parts[2]

AttributeTypeAt(i) == Join(Split(DirectiveAt(i).value, " or ", -1), " | ")

\* The attribute-type fields read so far.
AttributeTypesRead ==
    {i \in 1..(curr_line_index - 1) : WellFormedAttributeTypeAt(i)}

\* The annotation of every attribute entry is absent or the value of an
\* attribute-type field of that name.
C15_FromTypeFieldOnly ==
    \A k \in DOMAIN attributes :
        \/ attributes[k].annotation = None
        \/ \E i \in AttributeTypesRead :
               /\ AttributeTypeNameAt(i) = attributes[k].name
               /\ attributes[k].annotation = Some(AttributeTypeAt(i))

\* Reading an attribute field emits no diagnostic of a missing cross-reference.
C15_NoMissingReference ==
    At("_read_attribute") =>
        \A k \in DOMAIN warnings' :
            k > Len(warnings) => ~StartsWith(warnings'[k], "No matching")

\* C15: the annotation of an attribute entry is absent or is the consolidated
\* value of an attribute-type field of the same name in the docstring; it is
\* never taken from the parent, and reading an attribute field never emits a
\* missing cross-reference diagnostic.
C15_AttributeAnnotation ==
    /\ []C15_FromTypeFieldOnly
    /\ [][C15_NoMissingReference]_vars

\* parse() has returned an attribute x without annotation and no diagnostic,
\* for a docstring without attribute-type field and a parent whose argument x
\* has an annotation.
C15_Witness ==
    /\ pc = "done"
    /\ HasArgument(parent, "x")
    /\ Argument(parent, "x").annotation # None
    /\ HasName(attributes, "x")
    /\ attributes[IndexOf(attributes, "x")].annotation = None
    /\ warnings = << >>

-----------------------------------------------------------------------------
(* C16: the raises section *)

\* A raised-error field that splits in three parts, with 2 directive words.
WellFormedExceptionAt(i) ==
    /\ FieldAt(i, "_read_exception")
    /\ ~DirectiveAt(i).invalid
    /\ WordCount(i) = 2

\* The raised-error fields read so far.
ExceptionsRead == {i \in 1..(curr_line_index - 1) : WellFormedExceptionAt(i)}

\* The entry of the raised-error field at line i.
ExceptionEntryAt(i) ==
    [annotation |-> DirectiveAt(i).directive_parts[2],
     description |-> DirectiveAt(i).value]

\* The exceptions are the entries of the raised-error fields read so far, one
\* each, in the order of the fields.
C16_OneEntryPerField ==
    /\ Len(exceptions) = Cardinality(ExceptionsRead)
    /\ \A k \in DOMAIN exceptions :
           exceptions[k] = ExceptionEntryAt(Nth(ExceptionsRead, k))

\* The raises section, when there is a raised-error field, holds them all.
C16_RaisesSection ==
    pc = "done" =>
        IF exceptions = << >> THEN SectionsOf("raises") = {}
        ELSE /\ Cardinality(SectionsOf("raises")) = 1
             /\ \A k \in SectionsOf("raises") : result[k].value = exceptions

\* Reading a well-formed raised-error field emits no diagnostic.
C16_NoDiagnostic ==
    At("_read_exception") /\ WellFormedExceptionAt(curr_line_index) =>
        warnings' = warnings

\* C16: the raises section has one entry per well-formed raised-error field,
\* in the order of the fields; nothing is merged: two fields of the same
\* error type give two entries, and no diagnostic.
C16_NoDeduplication ==
    /\ [](C16_OneEntryPerField /\ C16_RaisesSection)
    /\ [][C16_NoDiagnostic]_vars

\* parse() has returned a raises section with two entries of one error type,
\* without a diagnostic.
C16_Witness ==
    /\ pc = "done"
    /\ \E k \in SectionsOf("raises") :
           /\ Len(result[k].value) >= 2
           /\ result[k].value[1].annotation = result[k].value[2].annotation
           /\ result[k].value[1].description # result[k].value[2].description
    /\ warnings = << >>

-----------------------------------------------------------------------------
(* C17: conflicting type fields *)

\* The value of the parameter-type field at line i, with every " or " of it
\* written " | ".
TypeValueAt(i) == Join(Split(DirectiveAt(i).value, " or ", -1), " | ")

\* Two parameter-type fields of the docstring give different types to name.
ConflictingTypes(name) ==
    \E i, j \in TypeFieldsFor(name) : TypeValueAt(i) # TypeValueAt(j)

\* The first parameter-type field for name.
FirstTypeFieldFor(name) ==
    CHOOSE i \in TypeFieldsFor(name) : \A j \in TypeFieldsFor(name) : i <= j

\* The type fields are the only sources of a type for name: one parameter
\* field, without inline type, and no argument of that name in the parent.
OnlyTypeFields(name) ==
    /\ Cardinality(ParamFieldsFor(name)) = 1
    /\ \A i \in ParamFieldsFor(name) : InlineTypeAt(i) = None
    /\ ~HasArgument(parent, name)

\* C17: when two parameter-type fields give different types to one
\* parameter, the entry keeps the type seen first and a diagnostic is emitted,
\* wherever the type fields are relative to the parameter field.
C17_ConflictingTypes ==
    pc = "done" =>
        \A i \in ParamFields :
            LET name == ParamNameAt(i) IN
            ConflictingTypes(name) /\ OnlyTypeFields(name) =>
                /\ EntryOf(name).annotation = Some(TypeValueAt(FirstTypeFieldFor(name)))
                /\ WarningsEqual(DuplicateInformation(name)) # {}

-----------------------------------------------------------------------------
(* C18: what a parse leaves alone *)

\* The lines of the docstring and the parent are as they were.
C18_InputsUntouched == lines' = lines /\ parent' = parent

\* The entries after a step are those before it, but for the annotation of
\* the entries of this name that had none.
OnlyAnnotationOf(name, before, after) ==
    /\ Len(after) = Len(before)
    /\ \A k \in DOMAIN before :
           \/ after[k] = before[k]
           \/ /\ before[k].name = name
              /\ before[k].annotation = None
              /\ after[k] = [before[k] EXCEPT !.annotation = after[k].annotation]

\* A type field changes, of the entries, at most the annotation of the entry
\* it names; a return-type field, at most the annotation of the return entry.
C18_OnlyOwnEntry ==
    /\ At("_read_parameter_type") /\ ~parsed_directive.invalid
           /\ Len(parsed_directive.directive_parts) = 2 =>
           /\ OnlyAnnotationOf(parsed_directive.directive_parts[2],
                               parameters, parameters')
           /\ attributes' = attributes
    /\ At("_read_attribute_type") /\ ~parsed_directive.invalid
           /\ Len(parsed_directive.directive_parts) = 2 =>
           /\ OnlyAnnotationOf(parsed_directive.directive_parts[2],
                               attributes, attributes')
           /\ parameters' = parameters
    /\ At("_read_return_type") =>
           /\ parameters' = parameters
           /\ attributes' = attributes
           /\ (return_value = None) = (return_value' = None)
           /\ return_value # None =>
                  Val(return_value').description = Val(return_value).description

\* C18: no step of a parse changes the lines of the docstring or the parent;
\* a backfill or an overwrite of an annotation changes only the entry that
\* the parse owns.
C18_Frame == [][C18_InputsUntouched /\ C18_OnlyOwnEntry]_vars

\* parse() has returned, with a parent, after the backfill of the annotation
\* of a parameter that the parent does not have: the parent is one of the
\* parents parse() can be given, and its arguments are as they were created.
C18_Witness ==
    /\ pc = "done"
    /\ parent \in PoolParents
    /\ parent # None
    /\ ~HasArgument(parent, "x")
    /\ Len(lines) = 2
    /\ WellFormedParamAt(1) /\ ParamNameAt(1) = "x" /\ InlineTypeAt(1) = None
    /\ WellFormedTypeAt(2) /\ TypeNameAt(2) = "x"
    /\ EntryOf("x").annotation = Some(TypeValueAt(2))

-----------------------------------------------------------------------------
(* C20: descriptive types *)

\* The last element of a non-empty set of indexes.
LastOf(S) == CHOOSE i \in S : \A j \in S : j <= i

\* The parameter-type fields read so far for a name, and the attribute-type
\* fields read so far for a name.
TypesReadFor(name) ==
    {i \in 1..(curr_line_index - 1) : WellFormedTypeAt(i) /\ TypeNameAt(i) = name}

AttributeTypesReadFor(name) ==
    {i \in AttributeTypesRead : AttributeTypeNameAt(i) = name}

\* The value of the return-type field at line i, with every " or " of it
\* written " | ".
ReturnTypeValueAt(i) == Join(Split(DirectiveAt(i).value, " or ", -1), " | ")

\* The types recorded are the values of the type fields read last, with
\* " | " for every " or ".
C20_TypesNormalised ==
    /\ \A name \in DOMAIN param_types :
           /\ TypesReadFor(name) # {}
           /\ param_types[name] = TypeValueAt(LastOf(TypesReadFor(name)))
    /\ \A name \in DOMAIN attribute_types :
           /\ AttributeTypesReadFor(name) # {}
           /\ attribute_types[name] = AttributeTypeAt(LastOf(AttributeTypesReadFor(name)))
    /\ IF ReturnTypesRead = {} THEN return_type = None
       ELSE return_type = Some(ReturnTypeValueAt(LastOf(ReturnTypesRead)))

\* The parameter fields, the attribute fields and the return fields read so
\* far.
ParamFieldsRead == {i \in ParamFields : i < curr_line_index}

AttributeFieldsRead ==
    {i \in 1..(curr_line_index - 1) : WellFormedAttributeAt(i)}

ReturnFieldsRead == {i \in ReturnFields : i < curr_line_index}

\* The descriptions recorded are the values of the fields as they are
\* written, and so are the inline types.
C20_DescriptionsVerbatim ==
    /\ \A k \in DOMAIN parameters :
           \E i \in ParamFieldsRead :
               /\ ParamNameAt(i) = parameters[k].name
               /\ parameters[k].description = DirectiveAt(i).value
               /\ InlineTypeAt(i) # None => parameters[k].annotation = InlineTypeAt(i)
    /\ \A k \in DOMAIN attributes :
           \E i \in AttributeFieldsRead :
               /\ DirectiveAt(i).directive_parts[2] = attributes[k].name
               /\ attributes[k].description = DirectiveAt(i).value
    /\ return_value # None =>
           /\ ReturnFieldsRead # {}
           /\ Val(return_value).description = DirectiveAt(LastOf(ReturnFieldsRead)).value

\* C20: the value of every parameter-type, attribute-type and return-type
\* field is recorded with each " or " of it replaced by " | "; inline types
\* and descriptions are recorded as they are written.
C20_DescriptiveTypes == C20_TypesNormalised /\ C20_DescriptionsVerbatim

\* parse() has returned a return value whose type had two " or ", now two
\* " | ", and whose description still has its " or ".
C20_Witness ==
    /\ pc = "done"
    /\ return_value = Some([annotation |-> Some("A | B | C"),
                            description |-> "yes or no."])
    /\ \E i \in DOMAIN lines : lines[i] = ":rtype: A or B or C"
    /\ \E i \in DOMAIN lines : lines[i] = ":return: yes or no."

-----------------------------------------------------------------------------
(* C19: calls of parse() that interleave *)

\* The call c returned for its docstring what the call a did.
SameOutcome(c, a) ==
    /\ c.lines = a.lines
    /\ c.parent = a.parent
    /\ c.result = a.result
    /\ c.warnings = a.warnings

\* The two calls that interleave have both returned.
BothReturned ==
    /\ suspended # None
    /\ pc = "done"
    /\ Val(suspended).pc = "done"

\* C19: two calls of parse() on two docstrings, their steps interleaved in any
\* order, each return the sections and emit the diagnostics that the call on
\* the same docstring returned and emitted when it ran alone, the second
\* alone call after the first: no accumulator and no cursor is shared by two
\* calls, or left by one call to the next.
C19_Independent ==
    BothReturned =>
        \E k \in 1..2 :
            /\ SameOutcome(call, alone[k])
            /\ SameOutcome(Val(suspended), alone[3 - k])

\* The two calls have returned, for two different docstrings that both have
\* text, each with the text of its own docstring.
C19_Witness ==
    /\ BothReturned
    /\ Len(alone) = 2
    /\ alone[1].lines # alone[2].lines
    /\ description # << >>
    /\ Val(suspended).description # << >>
    /\ description # Val(suspended).description

-----------------------------------------------------------------------------
(* C28: where each line of the docstring goes *)

\* A field type matches a line before line j: a field marker was read before
\* the loop came to line j.
MarkerBefore(j) == \E m \in 1..(j - 1) : ReaderFor(lines[m]) # ""

\* The last line before line j that starts with ":"; 0 when none does.
ColonLineBefore(j) ==
    LET earlier == {m \in 1..(j - 1) : StartsWith(lines[m], ":")} IN
    IF earlier = {} THEN 0
    ELSE CHOOSE m \in earlier : \A k \in earlier : k <= m

\* Line j belongs to the field that starts at the last ":" line before it.
AbsorbedAt(j) ==
    /\ ~StartsWith(lines[j], ":")
    /\ ColonLineBefore(j) > 0
    /\ ReaderFor(lines[ColonLineBefore(j)]) # ""

\* Line j goes to the text buffer: no field type matches it, and no field
\* absorbs it.
TextLineAt(j) == ReaderFor(lines[j]) = "" /\ ~AbsorbedAt(j)

\* The claim as stated: after a field marker, only a line that starts with
\* ":" goes to the text buffer.
StatedTextLineAt(j) ==
    /\ ReaderFor(lines[j]) = ""
    /\ MarkerBefore(j) => StartsWith(lines[j], ":")

\* The lines 1..n that are text lines, in order, as they are.
RECURSIVE TextUpTo(_, _)
TextUpTo(IsText(_), n) ==
    IF n = 0 THEN << >>
    ELSE IF IsText(n) THEN Append(TextUpTo(IsText, n - 1), lines[n])
    ELSE TextUpTo(IsText, n - 1)

\* The claim as stated: the text buffer holds the lines before the cursor
\* that no field type matches and that, once a field marker was read, start
\* with ":".
C28_OnlyColonLinesAfterField ==
    description = TextUpTo(StatedTextLineAt, curr_line_index - 1)

\* One turn of the loop takes the line at the cursor for the text buffer and
\* goes to the next line, or takes the lines up to the next ":" line for one
\* field and goes to that line.
ConsumedOnce ==
    \/ /\ TextLineAt(curr_line_index)
       /\ description' = Append(description, lines[curr_line_index])
       /\ curr_line_index' = curr_line_index + 1
    \/ /\ ReaderFor(lines[curr_line_index]) # ""
       /\ description' = description
       /\ parsed_directive.line =
              LogicalLine(curr_line_index, NextColonLine(curr_line_index))
       /\ curr_line_index' = NextColonLine(curr_line_index)
       /\ \A j \in (curr_line_index + 1)..(curr_line_index' - 1) : AbsorbedAt(j)

\* C28: every line is consumed exactly once: a turn of the loop either
\* appends the line at the cursor unchanged to the text buffer, or includes
\* it and the lines up to the next line that starts with ":" in one field's
\* consolidated line, and goes on after the lines it took. The text buffer
\* holds, in order, the lines before the cursor that no field type matches and
\* that are not absorbed by a field: the lines that start with ":", the lines
\* with no ":" line before them, and the lines whose closest ":" line before
\* them is matched by no field type either.
C28_LinesConsumedOnce ==
    /\ [](description = TextUpTo(TextLineAt, curr_line_index - 1))
    /\ [][pc = "scan" /\ curr_line_index <= Len(lines) => ConsumedOnce]_vars

\* After a parameter field, a line that starts with ":" and that no field
\* type matches went to the text buffer, and so did the prose after it.
C28_Witness ==
    /\ pc = "done"
    /\ lines = <<":param x: the x value.", ":meta: not a field", "  continued here.">>
    /\ description = <<":meta: not a field", "  continued here.">>
    /\ Len(parameters) = 1

-----------------------------------------------------------------------------
(* C29: type fields alone make no section *)

\* The well-formed attribute fields, and the well-formed fields that give a
\* type only, of any of the three kinds.
AttributeFields == {i \in DOMAIN lines : WellFormedAttributeAt(i)}

TypeFields ==
    {i \in DOMAIN lines : \/ WellFormedReturnTypeAt(i)
                          \/ WellFormedTypeAt(i)
                          \/ WellFormedAttributeTypeAt(i)}

\* C29: when parse() has returned, there is a returns section if and only if
\* the docstring has a well-formed return field, and never more than one;
\* without a well-formed parameter field there is no arguments section, and
\* without a well-formed attribute field no attributes section, whatever the
\* number of return-type, parameter-type and attribute-type fields.
C29_SectionsNeedValueFields ==
    pc = "done" =>
        /\ (SectionsOf("returns") # {}) <=> (ReturnFields # {})
        /\ Cardinality(SectionsOf("returns")) <= 1
        /\ ParamFields = {} => SectionsOf("arguments") = {}
        /\ AttributeFields = {} => SectionsOf("attributes") = {}

\* parse() has returned the text section only, with no text, for a docstring
\* of two or more well-formed type fields, a return type among them.
C29_Witness ==
    /\ pc = "done"
    /\ Len(lines) >= 2
    /\ TypeFields = DOMAIN lines
    /\ \E i \in DOMAIN lines : WellFormedReturnTypeAt(i)
    /\ \E i \in DOMAIN lines : WellFormedTypeAt(i)
    /\ return_type # None
    /\ Len(result) = 1
    /\ result[1].kind = "text"
    /\ result[1].value = ""

-----------------------------------------------------------------------------
(* The command line application: main() of src/src/griffe/cli.py *)

\* The state of the calls of parse(); main() calls none.
parse_vars == <<lines, parent, curr_line_index, description, parameters,
                param_types, attributes, attribute_types, exceptions,
                return_value, return_type, warnings, result, pc, suspended,
                alone, google_vars>>

\* The most PACKAGE arguments of a command line, and the most -s options.
MaxPackages == 2

MaxSearch == 1

\* The names a command line gives as PACKAGE, and the paths it gives with -s.
PackageNames == {"a", "b", "c"}

SearchPaths == {"src"}

\* sys.path
sys_path == <<"/usr/lib/python3", "/site-packages">>

\* The default of -o: sys.stdout, which is no str; and a str given with -o.
sys_stdout == [str |-> FALSE, name |-> "<stdout>"]

OutputFile(name) == [str |-> TRUE, name |-> name]

Outputs == {sys_stdout, OutputFile("out.json"), OutputFile("{package}.json")}

\* output.format(package=value)
format(output, value) == Replace(output, "{package}", value)

\* parser.parse_args(args): PACKAGE is nargs="+", -s is action="append" with
\* no default, so that opts.search is None without -s.
Namespaces ==
    [ async_loader    : BOOLEAN,
      append_sys_path : BOOLEAN,
      output          : Outputs,
      search          : {None} \cup {Some(q) : q \in SeqsUpTo(SearchPaths, MaxSearch) \ {<< >>}},
      packages        : SeqsUpTo(PackageNames, MaxPackages) \ {<< >>} ]

CliInit ==
    /\ lines = << >>
    /\ parent = None
    /\ Start
    /\ OneCall
    /\ google_idle
    /\ \E o \in Namespaces : opts = Some(o)
    /\ installed \in SUBSET PackageNames
    /\ search = None
    /\ per_package_output = FALSE
    /\ package = 1
    /\ loaded = << >>
    /\ log = << >>
    /\ printed = << >>
    /\ exit_code = None
    /\ main_pc = "start"

\* Lines 127-141 of main(): per_package_output, and the search paths. Without
\* -s, opts.search is None, and None has no extend: AttributeError.
main_setup ==
    /\ main_pc = "start"
    /\ LET o == Val(opts) IN
       /\ per_package_output' =
              (o.output.str /\ format(o.output.name, "package") # o.output.name)
       /\ IF o.append_sys_path
          THEN IF o.search = None
               THEN /\ main_pc' = "raised"
                    /\ search' = search
               ELSE /\ search' = Some(Val(o.search) \o sys_path)
                    /\ main_pc' = "load"
          ELSE /\ search' = o.search
               /\ main_pc' = "load"
    /\ UNCHANGED <<opts, installed, package, loaded, log, printed, exit_code>>
    /\ UNCHANGED parse_vars

\* loader.load_module(package, search_paths): the module of that name, or
\* ModuleNotFoundError (found = FALSE) when no search path holds the package.
load_module(name) ==
    [found |-> name \in installed, module |-> [name |-> name]]

\* loaded[module.name] = module
loaded_set(d, module) ==
    IF HasName(d, module.name)
    THEN [d EXCEPT ![IndexOf(d, module.name)] = module]
    ELSE Append(d, module)

\* One turn of the for loop of _load_packages or _load_packages_async.
load_package ==
    /\ main_pc = "load"
    /\ package <= Len(Val(opts).packages)
    /\ LET name == Val(opts).packages[package]
           info == [level |-> "info", message |-> "Loading package " \o name]
           load == load_module(name) IN
       IF load.found
       THEN /\ loaded' = loaded_set(loaded, load.module)
            /\ log' = Append(log, info)
       ELSE /\ loaded' = loaded
            /\ log' = log \o <<info, [level |-> "error",
                                      message |-> "Could not find package " \o name]>>
    /\ package' = package + 1
    /\ UNCHANGED <<opts, installed, search, per_package_output, printed,
                   exit_code, main_pc>>
    /\ UNCHANGED parse_vars

\* _load_packages
load_packages ==
    /\ ~Val(opts).async_loader
    /\ load_package

\* _load_packages_async
load_packages_async ==
    /\ Val(opts).async_loader
    /\ load_package

\* return loaded, and packages = ... in main()
load_return ==
    /\ main_pc = "load"
    /\ package > Len(Val(opts).packages)
    /\ main_pc' = "serialize"
    /\ UNCHANGED <<opts, installed, search, per_package_output, package,
                   loaded, log, printed, exit_code>>
    /\ UNCHANGED parse_vars

\* Lines 150-156 of main(): one _print_data per package, or one for all.
serialize ==
    /\ main_pc = "serialize"
    /\ LET output == Val(opts).output IN
       printed' =
           IF per_package_output
           THEN [k \in DOMAIN loaded |->
                    [file |-> OutputFile(format(output.name, loaded[k].name)),
                     data |-> <<loaded[k].name>>]]
           ELSE <<[file |-> output,
                   data |-> [k \in DOMAIN loaded |-> loaded[k].name]]>>
    /\ main_pc' = "return"
    /\ UNCHANGED <<opts, installed, search, per_package_output, package,
                   loaded, log, exit_code>>
    /\ UNCHANGED parse_vars

\* return 0 if len(packages) == len(opts.packages) else 1
main_return ==
    /\ main_pc = "return"
    /\ exit_code' = Some(IF Len(loaded) = Len(Val(opts).packages) THEN 0 ELSE 1)
    /\ main_pc' = "returned"
    /\ UNCHANGED <<opts, installed, search, per_package_output, package,
                   loaded, log, printed>>
    /\ UNCHANGED parse_vars

CliNext ==
    \/ main_setup
    \/ load_packages
    \/ load_packages_async
    \/ load_return
    \/ serialize
    \/ main_return

CliSpec == CliInit /\ [][CliNext]_vars

-----------------------------------------------------------------------------
(* C30: the exit code of main() *)

\* The PACKAGE arguments the loader finds, and those it does not.
Found == {k \in DOMAIN Val(opts).packages : Val(opts).packages[k] \in installed}

Missing == DOMAIN Val(opts).packages \ Found

\* C30: when main() has returned, it has returned 0 if the loader found and
\* loaded every package named on the command line, and 1 if it did not find
\* one of them.
C30_ExitCode ==
    main_pc = "returned" =>
        /\ exit_code \in {Some(0), Some(1)}
        /\ exit_code = Some(0) <=> Missing = {}

-----------------------------------------------------------------------------
(* C31: --append-sys-path *)

\* The search paths given with -s, none without -s.
GivenSearch == IF Val(opts).search = None THEN << >> ELSE Val(Val(opts).search)

\* C31: with --append-sys-path, once main() is past the setting of the search
\* paths, it has not raised, and the search paths it loads the packages with
\* are the paths given with -s, if any, followed by the entries of sys.path.
C31_AppendSysPath ==
    main_pc # "start" /\ Val(opts).append_sys_path =>
        /\ main_pc # "raised"
        /\ search = Some(GivenSearch \o sys_path)

-----------------------------------------------------------------------------
(* The indentation-section (Google-style) parser, griffe.docstrings.google. *)
(* Its source is not among the files of src/: it is modelled from section   *)
(* 4.2 of the specification and from what src/tests/test_google.py expects  *)
(* of it. The docstrings of this model hold no Attributes: and no Examples: *)
(* header, and their last line is never blank (the text of a docstring is   *)
(* cleaned of its trailing blank lines).                                    *)

\* The state of the directive-field parser and of main(), which a parse of
\* this parser leaves alone.
rst_vars == <<curr_line_index, description, parameters, param_types,
              attributes, attribute_types, exceptions, return_value,
              return_type, suspended, alone, main_vars>>

\* n spaces
RECURSIVE Spaces(_)
Spaces(n) == IF n = 0 THEN "" ELSE " " \o Spaces(n - 1)

\* The number of blanks a line starts with.
Indentation(line) == Len(line) - Len(LStrip(line))

\* A line with nothing but blanks.
is_empty_line(line) == Strip(line) = ""

\* str.lower(), for the letters of the headers
UpperCase == "ABCDEFGHIJKLMNOPQRSTUVWXYZ"

LowerCase == "abcdefghijklmnopqrstuvwxyz"

UpperLetters == {Char(UpperCase, k) : k \in 1..Len(UpperCase)}

RECURSIVE Lower(_)
Lower(s) ==
    IF s = "" THEN ""
    ELSE LET c == Char(s, 1) IN
         (IF c \in UpperLetters THEN Char(LowerCase, Find(UpperCase, c, 1)) ELSE c)
         \o Lower(SubSeq(s, 2, Len(s)))

\* str.strip(chars)
StripChars(s, chars) ==
    LET t == RStripChars(s, chars) IN
    SubSeq(t, FirstNotIn(t, chars, 1), Len(t))

\* The section a header line opens, by its lower-cased text; the line is a
\* header only as a whole, without indentation.
section_kind(line) ==
    LET lower == Lower(line) IN
    IF line = "" \/ Char(line, Len(line)) # ":" THEN ""
    ELSE IF lower \in {"args:", "arguments:", "params:", "parameters:"}
    THEN "arguments"
    ELSE IF lower \in {"keyword args:", "keyword arguments:"}
    THEN "keyword arguments"
    ELSE IF lower \in {"raises:", "exceptions:"} THEN "raises"
    ELSE IF lower = "returns:" THEN "returns"
    ELSE IF lower = "yields:" THEN "yields"
    ELSE ""

\* The first line from line i on that is not empty; Len(ls) + 1 when none is.
RECURSIVE FirstContent(_, _)
FirstContent(ls, i) ==
    IF i > Len(ls) THEN i
    ELSE IF is_empty_line(ls[i]) THEN FirstContent(ls, i + 1)
    ELSE i

\* The diagnostic of a continuation line indented more than the items and
\* less than twice as much.
ConfusingIndentation(i, indent, cont_indent) ==
    "Confusing indentation for continuation line " \o ToString(i)
    \o " in docstring, should be " \o ToString(indent) \o " * 2 = "
    \o ToString(indent * 2) \o " spaces, not " \o ToString(cont_indent)

\* The items read so far and the lines of the item being read, given back as
\* the items of the block.
block_items_end(i, items, current_item, warns) ==
    [items |-> Append(items, RStripChars(Join(current_item, "\n"), {"\n"})),
     next  |-> i,
     warns |-> warns]

\* The loop over the lines of a block of items with a line indented less
\* than the items taken as one more line of the item being read.
RECURSIVE block_items_loop_absorbing(_, _, _, _, _, _)
block_items_loop_absorbing(ls, i, indent, items, current_item, warns) ==
    IF i > Len(ls) THEN block_items_end(i, items, current_item, warns)
    ELSE LET line == ls[i] IN
         IF StartsWith(line, Spaces(indent * 2))
         THEN block_items_loop_absorbing(ls, i + 1, indent, items,
                  Append(current_item, SubSeq(line, indent * 2 + 1, Len(line))),
                  warns)
         ELSE IF StartsWith(line, Spaces(indent + 1))
         THEN block_items_loop_absorbing(ls, i + 1, indent, items,
                  Append(current_item, LStrip(line)),
                  Append(warns, ConfusingIndentation(i, indent, Indentation(line))))
         ELSE IF StartsWith(line, Spaces(indent))
         THEN block_items_loop_absorbing(ls, i + 1, indent,
                  Append(items, Join(current_item, "\n")),
                  <<SubSeq(line, indent + 1, Len(line))>>, warns)
         ELSE block_items_loop_absorbing(ls, i + 1, indent, items,
                  Append(current_item, LStrip(line)), warns)

\* The loop over the lines of a block of items with the badly indented
\* continuation lines left out of the items.
RECURSIVE block_items_loop_dropped(_, _, _, _, _, _)
block_items_loop_dropped(ls, i, indent, items, current_item, warns) ==
    IF i > Len(ls) THEN block_items_end(i, items, current_item, warns)
    ELSE LET line == ls[i] IN
         IF StartsWith(line, Spaces(indent * 2))
         THEN block_items_loop_dropped(ls, i + 1, indent, items,
                  Append(current_item, SubSeq(line, indent * 2 + 1, Len(line))),
                  warns)
         ELSE IF StartsWith(line, Spaces(indent + 1))
         THEN block_items_loop_dropped(ls, i + 1, indent, items, current_item,
                  Append(warns, ConfusingIndentation(i, indent, Indentation(line))))
         ELSE IF StartsWith(line, Spaces(indent))
         THEN block_items_loop_dropped(ls, i + 1, indent,
                  Append(items, Join(current_item, "\n")),
                  <<SubSeq(line, indent + 1, Len(line))>>, warns)
         ELSE IF is_empty_line(line)
         THEN block_items_loop_dropped(ls, i + 1, indent, items,
                  Append(current_item, ""), warns)
         ELSE block_items_end(i, items, current_item, warns)

\* The loop over the lines of a block of items, the first item of which
\* starts with indent blanks: a line with twice as many blanks or more
\* continues the item; one with more blanks than indent continues it too,
\* with a diagnostic; one with indent blanks starts a new item; an empty line
\* is kept in the item; any other line ends the block.
RECURSIVE block_items_loop(_, _, _, _, _, _)
block_items_loop(ls, i, indent, items, current_item, warns) ==
    IF i > Len(ls) THEN block_items_end(i, items, current_item, warns)
    ELSE LET line == ls[i] IN
         IF StartsWith(line, Spaces(indent * 2))
         THEN block_items_loop(ls, i + 1, indent, items,
                  Append(current_item, SubSeq(line, indent * 2 + 1, Len(line))),
                  warns)
         ELSE IF StartsWith(line, Spaces(indent + 1))
         THEN block_items_loop(ls, i + 1, indent, items,
                  Append(current_item, LStrip(line)),
                  Append(warns, ConfusingIndentation(i, indent, Indentation(line))))
         ELSE IF StartsWith(line, Spaces(indent))
         THEN block_items_loop(ls, i + 1, indent,
                  Append(items, Join(current_item, "\n")),
                  <<SubSeq(line, indent + 1, Len(line))>>, warns)
         ELSE IF is_empty_line(line)
         THEN block_items_loop(ls, i + 1, indent, items,
                  Append(current_item, ""), warns)
         ELSE block_items_end(i, items, current_item, warns)

\* The items of the block that follows a header, from line offset on: the
\* empty lines before the first item are skipped, the indentation of the
\* first item is the indentation of the items, and a first line that is not
\* indented is no item. next is the line the loop of parse() goes on at.
read_block_items(ls, offset) ==
    LET first == FirstContent(ls, offset) IN
    IF offset > Len(ls) THEN [items |-> << >>, next |-> offset + 1, warns |-> << >>]
    ELSE IF first > Len(ls) \/ Indentation(ls[first]) = 0
    THEN [items |-> << >>, next |-> first, warns |-> << >>]
    ELSE LET indent == Indentation(ls[first]) IN
         block_items_loop(ls, first + 1, indent, << >>,
                          <<SubSeq(ls[first], indent + 1, Len(ls[first]))>>, << >>)

\* The lines of a block of text from line i on: those that start with indent
\* blanks, without them, and the empty lines.
RECURSIVE block_loop(_, _, _, _)
block_loop(ls, i, indent, block) ==
    IF i <= Len(ls) /\ (StartsWith(ls[i], Spaces(indent)) \/ is_empty_line(ls[i]))
    THEN block_loop(ls, i + 1, indent,
                    Append(block, SubSeq(ls[i], indent + 1, Len(ls[i]))))
    ELSE [text |-> RStripChars(Join(block, "\n"), {"\n"}), next |-> i]

\* The text of the block that follows a header, from line offset on.
read_block(ls, offset) ==
    LET first == FirstContent(ls, offset) IN
    IF offset > Len(ls) THEN [text |-> "", next |-> offset + 1]
    ELSE IF first > Len(ls) \/ Indentation(ls[first]) = 0
    THEN [text |-> "", next |-> first]
    ELSE block_loop(ls, first + 1, Indentation(ls[first]), <<LStrip(ls[first])>>)

\* The default of an item taken from the signature only when the item is
\* marked optional.
item_default_optional(par, name, optional) ==
    IF optional /\ HasArgument(par, name) THEN Argument(par, name).default ELSE None

\* The default of an item of an arguments section: the default the signature
\* of the parent gives for its name, whether the item is marked optional or
\* not (test_parse_optional_type_in_docstring), None without one.
item_default(par, name, optional) ==
    IF HasArgument(par, name) THEN Argument(par, name).default ELSE None

\* The annotation of an item with the signature of the parent first, and the
\* type written after the name of the item only when the signature has none.
item_annotation_signature_first(par, name, has_type, type) ==
    IF HasArgument(par, name) /\ Argument(par, name).annotation # None
    THEN Argument(par, name).annotation
    ELSE IF has_type THEN Some(type)
    ELSE None

\* The annotation of an item: the type written after its name, without the
\* parentheses and the ", optional" mark, or else the annotation the
\* signature of the parent gives for its name, or else None.
item_annotation(par, name, has_type, type) ==
    IF has_type THEN Some(type)
    ELSE IF HasArgument(par, name) THEN Argument(par, name).annotation
    ELSE None

\* One item of an arguments section, "name [(type[, optional])]: description":
\* the entry of it, if any, and the diagnostics.
read_argument(par, arg_line) ==
    LET parts == Split(arg_line, ":", 1) IN
    IF Len(parts) < 2
    THEN [entry |-> None,
          warns |-> <<"Failed to get 'name: description' pair from '"
                      \o arg_line \o "'">>]
    ELSE LET name_with_type == parts[1]
             has_type == Find(name_with_type, " ", 1) # 0
             words == Split(name_with_type, " ", 1)
             name == words[1]
             inside == IF has_type THEN StripChars(words[2], {"(", ")"}) ELSE ""
             optional == Len(inside) >= 10
                         /\ SubSeq(inside, Len(inside) - 9, Len(inside)) = ", optional"
             type == IF optional THEN SubSeq(inside, 1, Len(inside) - 10)
                     ELSE inside
             annotation == item_annotation(par, name, has_type, type) IN
         [entry |-> Some([name        |-> name,
                          annotation  |-> annotation,
                          description |-> LStrip(parts[2]),
                          value       |-> item_default(par, name, optional)]),
          warns |-> IF annotation = None
                    THEN <<"No type or annotation for argument '" \o name \o "'">>
                    ELSE << >>]

\* The entries and the diagnostics of the items, in order.
RECURSIVE read_items(_, _, _)
read_items(read_item(_), items, k) ==
    IF k > Len(items) THEN [entries |-> << >>, warns |-> << >>]
    ELSE LET item == read_item(items[k])
             rest == read_items(read_item, items, k + 1) IN
         [entries |-> item.entry \o rest.entries,
          warns   |-> item.warns \o rest.warns]

\* A section of items without the diagnostic of an empty section.
items_section_silent(kind, label, block, read, header) ==
    [section |-> IF read.entries # << >>
                 THEN Some([kind |-> kind, value |-> read.entries])
                 ELSE None,
     next    |-> block.next,
     warns   |-> block.warns \o read.warns]

\* A section of items and its diagnostics: no section and a diagnostic of an
\* empty section when no item gave an entry.
items_section(kind, label, block, read, header) ==
    IF read.entries # << >>
    THEN [section |-> Some([kind |-> kind, value |-> read.entries]),
          next    |-> block.next,
          warns   |-> block.warns \o read.warns]
    ELSE [section |-> None,
          next    |-> block.next,
          warns   |-> block.warns \o read.warns
                      \o <<"Empty " \o label \o " section at line " \o ToString(header)>>]

\* The reader of Parameters: / Arguments: / Args: / Params:, called at the
\* header of line header.
read_arguments_section(ls, par, header) ==
    LET block == read_block_items(ls, header + 1)
        read(arg_line) == read_argument(par, arg_line) IN
    items_section("arguments", "arguments", block,
                  read_items(read, block.items, 1), header)

\* The reader of Keyword Args: / Keyword Arguments:
read_keyword_arguments_section(ls, par, header) ==
    LET block == read_block_items(ls, header + 1)
        read(arg_line) == read_argument(par, arg_line) IN
    items_section("keyword arguments", "keyword arguments", block,
                  read_items(read, block.items, 1), header)

\* One item of a Raises: section, "ErrorType: description".
read_exception_item(line) ==
    LET parts == Split(line, ": ", 1) IN
    IF Len(parts) < 2
    THEN [entry |-> None,
          warns |-> <<"Failed to get 'exception: description' pair from '"
                      \o line \o "'">>]
    ELSE [entry |-> Some([annotation  |-> parts[1],
                          description |-> SubSeq(parts[2], FirstNotIn(parts[2], {" "}, 1),
                                                 Len(parts[2]))]),
          warns |-> << >>]

\* The reader of Raises: / Exceptions:
read_raises_section(ls, header) ==
    LET block == read_block_items(ls, header + 1) IN
    items_section("raises", "exceptions", block,
                  read_items(read_exception_item, block.items, 1), header)

\* The annotation of a returns or yields block: the type written before the
\* first ":" of its text, or else the return annotation of the parent.
return_annotation(par, parts) ==
    IF Len(parts) = 2 THEN Some(LStrip(parts[1]))
    ELSE IF par # None THEN par.returns
    ELSE None

\* A Returns: or Yields: section: the block that follows the header is the
\* one item, "[type: ]description"; no section and the diagnostic of an empty
\* return section when there is no block.
returned_section(kind, ls, par, header) ==
    LET block == read_block(ls, header + 1)
        parts == Split(block.text, ":", 1)
        annotation == return_annotation(par, parts) IN
    IF block.text = ""
    THEN [section |-> None,
          next    |-> block.next,
          warns   |-> <<"Empty return section at line " \o ToString(header)>>]
    ELSE [section |-> Some([kind  |-> kind,
                            value |-> [annotation  |-> annotation,
                                       description |-> IF Len(parts) = 2
                                                       THEN LStrip(parts[2])
                                                       ELSE block.text]]),
          next    |-> block.next,
          warns   |-> IF annotation = None
                      THEN <<"No return type/annotation in docstring/signature">>
                      ELSE << >>]

\* The reader of Returns:
read_returns_section(ls, par, header) == returned_section("returns", ls, par, header)

\* The reader of Yields:
read_yields_section(ls, par, header) == returned_section("yields", ls, par, header)

\* The characters of the title word of an admonition: letters, digits, "_"
\* and "-".
WordChars ==
    UpperLetters
    \cup {Char(LowerCase, k) : k \in 1..Len(LowerCase)}
    \cup {"0", "1", "2", "3", "4", "5", "6", "7", "8", "9", "_", "-"}

\* A line "Title:" or "Title: subtitle" that is followed by a line indented
\* by four blanks more is written as the opening of a Markdown admonition,
\* "!!! title" or "!!! title "subtitle"", with its own indentation; any other
\* line is left as it is.
replace_admonition(ls, i) ==
    LET line == ls[i]
        indent == SubSeq(line, 1, Indentation(line))
        rest == LStrip(line)
        colon == Find(rest, ":", 1)
        type == SubSeq(rest, 1, colon - 1)
        after == SubSeq(rest, colon + 1, Len(rest))
        title == LStrip(after)
        matches_title ==
            /\ colon > 1
            /\ FirstNotIn(type, WordChars, 1) > Len(type)
            /\ \/ after = ""
               \/ Char(after, 1) \in Whitespace /\ Len(after) > 1 IN
    IF matches_title /\ i < Len(ls) /\ StartsWith(ls[i + 1], indent \o Spaces(4))
    THEN indent \o "!!! " \o Lower(type)
         \o (IF after = "" THEN "" ELSE " \"" \o SubSeq(after, Len(after) - Len(title) + 1, Len(after)) \o "\"")
    ELSE line

\* The text read since the last section, as a section; none when every line
\* of it is empty.
text_section(text) ==
    [kind |-> "text", value |-> RStripChars(Join(text, "\n"), {"\n"})]

flush_text(text) ==
    IF \E k \in DOMAIN text : text[k] # "" THEN <<text_section(text)>> ELSE << >>

\* The three backquotes of a fence. A TLA+ string holds no backquote: the
\* docstrings of this model have three tildes where a fence has them.
Fence == "~~~"

\* A line that opens or closes a fenced code block.
is_fence(line) ==
    StartsWith(SubSeq(line, FirstNotIn(line, {" "}, 1), Len(line)), Fence)

\* The loop at a line that is the header of a section of this kind, within a
\* code block or not.
AtHeader_anywhere(kind) ==
    /\ pc = "scan"
    /\ index <= Len(lines)
    /\ section_kind(lines[index]) = kind

\* The loop of parse() is at a line, outside a code block, that is the header
\* of a section of this kind.
AtHeader(kind) ==
    /\ pc = "scan"
    /\ index <= Len(lines)
    /\ ~in_code_block
    /\ section_kind(lines[index]) = kind

\* The section of a header merged into the section before it when that one
\* is of the same kind: its items added to the items there, its returned
\* value put in place of the one there.
read_section_merged(read) ==
    /\ LET text == flush_text(current_section)
           last == sections[Len(sections)] IN
       sections' =
           IF /\ read.section # None
              /\ text = << >>
              /\ sections # << >>
              /\ last.kind = Val(read.section).kind
           THEN [sections EXCEPT ![Len(sections)].value =
                     IF last.kind \in {"returns", "yields"}
                     THEN Val(read.section).value
                     ELSE @ \o Val(read.section).value]
           ELSE sections \o text \o read.section
    /\ current_section' = << >>
    /\ warnings' = warnings \o read.warns
    /\ index' = read.next
    /\ UNCHANGED <<lines, parent, result, pc, in_code_block, rst_vars>>

\* The loop body at a header: the text before it is a section, the reader of
\* the header gives the section, if any, and the line to go on at.
read_section(read) ==
    /\ sections' = sections \o flush_text(current_section) \o read.section
    /\ current_section' = << >>
    /\ warnings' = warnings \o read.warns
    /\ index' = read.next
    /\ UNCHANGED <<lines, parent, result, pc, in_code_block, rst_vars>>

arguments_header ==
    /\ AtHeader("arguments")
    /\ read_section(read_arguments_section(lines, parent, index))

keyword_arguments_header ==
    /\ AtHeader("keyword arguments")
    /\ read_section(read_keyword_arguments_section(lines, parent, index))

raises_header ==
    /\ AtHeader("raises")
    /\ read_section(read_raises_section(lines, index))

returns_header ==
    /\ AtHeader("returns")
    /\ read_section(read_returns_section(lines, parent, index))

yields_header ==
    /\ AtHeader("yields")
    /\ read_section(read_yields_section(lines, parent, index))

\* The loop body between the fences of a code block: the line is text, and a
\* fence closes the block.
code_block_line ==
    /\ pc = "scan"
    /\ index <= Len(lines)
    /\ in_code_block
    /\ in_code_block' = ~is_fence(lines[index])
    /\ current_section' = Append(current_section, lines[index])
    /\ index' = index + 1
    /\ UNCHANGED <<lines, parent, warnings, result, pc, sections, rst_vars>>

\* The loop body at a fence outside a code block: the line is text, and it
\* opens a block.
open_code_block ==
    /\ AtHeader("")
    /\ is_fence(lines[index])
    /\ in_code_block' = TRUE
    /\ current_section' = Append(current_section, lines[index])
    /\ index' = index + 1
    /\ UNCHANGED <<lines, parent, warnings, result, pc, sections, rst_vars>>

\* The loop body at any other line: the line is text, written as the opening
\* of an admonition when it is the title of one.
text_line ==
    /\ AtHeader("")
    /\ ~is_fence(lines[index])
    /\ current_section' = Append(current_section, replace_admonition(lines, index))
    /\ index' = index + 1
    /\ UNCHANGED <<lines, parent, warnings, result, pc, sections,
                   in_code_block, rst_vars>>

\* After the loop: the text left is the last section, and parse() returns
\* the sections.
google_return ==
    /\ pc = "scan"
    /\ index > Len(lines)
    /\ sections' = sections \o (IF current_section # << >>
                                THEN <<text_section(current_section)>>
                                ELSE << >>)
    /\ result' = sections'
    /\ pc' = "done"
    /\ UNCHANGED <<lines, parent, warnings, current_section, in_code_block,
                   index, rst_vars>>

GoogleNext ==
    \/ arguments_header
    \/ keyword_arguments_header
    \/ raises_header
    \/ returns_header
    \/ yields_header
    \/ code_block_line
    \/ open_code_block
    \/ text_line
    \/ google_return

-----------------------------------------------------------------------------
(* The docstrings the indentation-section parser is called on *)

\* The lines of the blocks, one block after the other.
RECURSIVE Flatten(_)
Flatten(blocks) ==
    IF Len(blocks) = 0 THEN << >> ELSE Head(blocks) \o Flatten(Tail(blocks))

\* The docstrings of up to n blocks of a set.
Docstrings(blocks, n) == {Flatten(q) : q \in SeqsUpTo(blocks, n)}

\* The most blocks of a docstring of headers, of a docstring of annotated
\* items, and of a docstring with code blocks; the most lines after the
\* header of a docstring of indented lines.
MaxHeaders == 2

MaxAnnotated == 1

MaxCodeBlocks == 2

MaxIndented == 3

\* Headers with an item and without, after a blank line or not, and text: an
\* unknown title without a body.
HeaderBlocks ==
    { <<"Parameters:", "    x: X.">>,
      <<"", "Parameters:", "    y: Y.">>,
      <<"Parameters:">>,
      <<"Exceptions:", "    E: wrong.">>,
      <<"", "Exceptions:", "    F: other.">>,
      <<"Exceptions:">>,
      <<"Returns:", "    1.">>,
      <<"", "Returns:", "    2.">>,
      <<"Returns:">>,
      <<"Yields:">>,
      <<"Keyword Args:">>,
      <<"Note:">> }

\* A header and one item or one block, with a type, with the mark of an
\* optional argument, or with neither.
AnnotatedHeaders == {"Parameters:", "Keyword Args:", "Returns:", "Yields:"}

AnnotatedItems ==
    { "    x: X value.",
      "    x (str): X value.",
      "    x (str, optional): X value.",
      "    y: Y value.",
      "    y (int): Y value.",
      "    y (int, optional): Y value.",
      "    str: Sum X + Y.",
      "    Integers." }

AnnotatedBlocks == {<<h, i>> : h \in AnnotatedHeaders, i \in AnnotatedItems}

\* The parents: no parent, a function that annotates x and gives it a
\* default, one that gives y a default only, one that does neither, and one
\* without arguments.
GoogleParents ==
    PoolParents
    \cup { [arguments |-> <<[name |-> "y", annotation |-> None, default |-> Some("None")]>>,
            returns |-> Some("Iterator[int]")],
           [arguments |-> << >>, returns |-> None] }

\* Text, a fenced code block and an indented code block with the look of a
\* section in them, a fence that is never closed, and a section.
CodeBlocks ==
    { <<"Some text.">>,
      <<"">>,
      <<"~~~python", "Parameters:", "    s: A string.", "~~~">>,
      <<"    Parameters:", "        s: A string.">>,
      <<"    ~~~", "Returns:">>,
      <<"Parameters:", "    s: A string.">> }

\* The lines after a header: items that start with 5 blanks and with 4,
\* lines that continue an item, well indented, badly, and more than needed,
\* an empty line, a line of text and a header.
IndentedLines ==
    { "     E: five.",
      "          Well indented.",
      "      Badly indented.",
      "              Extra.",
      "",
      "    F: four.",
      "Text: after.",
      "Returns:" }

IndentedHeaders == {"Raises:", "Arguments:"}

\* The text of a docstring is cleaned: its last line is not blank.
Cleaned(ls) == IF Len(ls) = 0 THEN TRUE ELSE ~is_empty_line(ls[Len(ls)])

GoogleStart ==
    /\ sections = << >>
    /\ current_section = << >>
    /\ in_code_block = FALSE
    /\ index = 1
    /\ warnings = << >>
    /\ result = << >>
    /\ pc = "scan"

GoogleInit ==
    /\ \/ /\ lines \in Docstrings(HeaderBlocks, MaxHeaders)
          /\ parent = None
       \/ /\ lines \in Docstrings(AnnotatedBlocks, MaxAnnotated)
          /\ parent \in GoogleParents
       \/ /\ lines \in Docstrings(CodeBlocks, MaxCodeBlocks)
          /\ parent = None
       \/ /\ \E h \in IndentedHeaders, ls \in SeqsUpTo(IndentedLines, MaxIndented) :
                 lines = <<h>> \o ls
          /\ parent = None
    /\ Cleaned(lines)
    /\ GoogleStart
    /\ curr_line_index = 1
    /\ description = << >>
    /\ parameters = << >>
    /\ param_types = << >>
    /\ attributes = << >>
    /\ attribute_types = << >>
    /\ exceptions = << >>
    /\ return_value = None
    /\ return_type = None
    /\ OneCall
    /\ main_idle

GoogleSpec == GoogleInit /\ [][GoogleNext]_vars

-----------------------------------------------------------------------------
(* C21: headers of the same kind are not merged *)

\* The kinds of section the headers open.
SectionKinds == {"arguments", "keyword arguments", "raises", "returns", "yields"}

\* Line i is a header.
HeaderAt(i) == i \in DOMAIN lines /\ section_kind(lines[i]) # ""

\* The first line after the header of line i that is not empty.
FirstItemLine(i) == FirstContent(lines, i + 1)

\* The header of line i has an item: the first line with content after it is
\* indented and, under a header of items, has the ":" (": " for an exception)
\* that ends the name of an item.
HeaderHasItem(i) ==
    LET first == FirstItemLine(i) IN
    /\ first <= Len(lines)
    /\ Indentation(lines[first]) > 0
    /\ CASE section_kind(lines[i]) \in {"returns", "yields"} -> TRUE
         [] section_kind(lines[i]) = "raises" -> Find(lines[first], ": ", 1) # 0
         [] OTHER -> Find(lines[first], ":", 1) # 0

\* The name of the first item of the header of line i: the text of its first
\* line up to the first blank or ":".
FirstItemName(i) ==
    LET item == LStrip(lines[FirstItemLine(i)]) IN
    Split(Split(item, ":", 1)[1], " ", 1)[1]

\* No line of the docstring is a fence, and every header is followed by an
\* item or by no indented line: each header with an item gives a section,
\* and no other line does.
HeadersOnly ==
    /\ \A i \in DOMAIN lines : ~is_fence(lines[i])
    /\ \A i \in DOMAIN lines :
           HeaderAt(i) /\ FirstItemLine(i) <= Len(lines)
               /\ Indentation(lines[FirstItemLine(i)]) > 0
           => HeaderHasItem(i)

\* The headers with an item, in source order, and the sections of the
\* result that are not text, in order.
RECURSIVE ItemHeadersFrom(_)
ItemHeadersFrom(i) ==
    IF i > Len(lines) THEN << >>
    ELSE (IF HeaderAt(i) /\ HeaderHasItem(i) THEN <<i>> ELSE << >>)
         \o ItemHeadersFrom(i + 1)

ItemHeaders == ItemHeadersFrom(1)

NonText(secs) == SelectSeq(secs, LAMBDA s : s.kind # "text")

\* The section is the one of the header of line i: it has the kind of the
\* header and, when it is a section of arguments, its first entry has the
\* name of the first item of the header.
SectionOfHeader(s, i) ==
    /\ s.kind = section_kind(lines[i])
    /\ s.kind \in {"arguments", "keyword arguments"} =>
           s.value[1].name = FirstItemName(i)
    /\ s.kind = "raises" => s.value[1].annotation = FirstItemName(i)

\* C21: the loop, at a header that has an item, adds one section of the kind
\* of the header after the sections collected so far, which it leaves as
\* they are, whatever the kind of the last of them and with or without an
\* empty line before the header; and the sections parse() returns for a
\* docstring of headers are, in source order, one section for each header
\* with an item.
C21_NoMerge ==
    /\ [](pc = "done" /\ HeadersOnly =>
              /\ Len(NonText(result)) = Len(ItemHeaders)
              /\ \A k \in DOMAIN ItemHeaders :
                     SectionOfHeader(NonText(result)[k], ItemHeaders[k]))
    /\ [][pc = "scan" /\ index <= Len(lines) /\ ~in_code_block
              /\ HeaderAt(index) /\ HeaderHasItem(index)
          => /\ Len(NonText(sections')) = Len(NonText(sections)) + 1
             /\ SubSeq(sections', 1, Len(sections)) = sections
             /\ SectionOfHeader(sections'[Len(sections')], index)]_vars

\* parse() has returned two sections of arguments, of one entry each, for
\* two headers of arguments that only an item separates.
C21_Witness ==
    /\ pc = "done"
    /\ lines = <<"Parameters:", "    x: X.", "Parameters:", "    x: X.">>
    /\ Len(result) = 2
    /\ \A k \in 1..2 : /\ result[k].kind = "arguments"
                        /\ Len(result[k].value) = 1
                        /\ result[k].value[1].name = "x"

-----------------------------------------------------------------------------
(* C22: headers without items *)

\* The header of line i has no item at all: no line with content follows
\* it, or the first one is not indented.
HeaderEmpty(i) ==
    \/ FirstItemLine(i) > Len(lines)
    \/ Indentation(lines[FirstItemLine(i)]) = 0

\* Line i is a title, "Title:", that is the header of no section: the header
\* of an admonition.
TitleAt(i) ==
    /\ i \in DOMAIN lines
    /\ ~HeaderAt(i)
    /\ Len(lines[i]) > 1
    /\ Char(lines[i], Len(lines[i])) = ":"
    /\ FirstNotIn(lines[i], WordChars, 1) = Len(lines[i])

\* The diagnostic of the empty section of a header of this kind.
EmptyDiagnostic(w, kind) ==
    /\ StartsWith(w, "Empty ")
    /\ kind \in {"returns", "yields"} <=> StartsWith(w, "Empty return section")

\* Every line of the docstring is a header or a title, and none has an item.
EmptyHeadersOnly ==
    \A i \in DOMAIN lines : (HeaderAt(i) \/ TitleAt(i)) /\ HeaderEmpty(i)

RECURSIVE HeadersUpTo(_)
HeadersUpTo(n) ==
    IF n = 0 THEN << >>
    ELSE HeadersUpTo(n - 1) \o (IF HeaderAt(n) THEN <<n>> ELSE << >>)

-----------------------------------------------------------------------------
(* C23: continuation lines with an unexpected indentation *)

\* The docstring starts with the header of a section of items, and its
\* second line is the first item.
ItemsFirst ==
    /\ Len(lines) >= 2
    /\ section_kind(lines[1]) \in {"arguments", "keyword arguments", "raises"}
    /\ lines[2] # ""
    /\ Indentation(lines[2]) > 0

\* The indentation of the first item.
Base == Indentation(lines[2])

\* The first line after the first item that has content and is indented
\* less than the first item; Len(lines) + 1 when there is none.
BlockEnd ==
    LET less == {j \in 3..Len(lines) : lines[j] # "" /\ Indentation(lines[j]) < Base} IN
    IF less = {} THEN Len(lines) + 1
    ELSE CHOOSE j \in less : \A k \in less : j <= k

\* The lines that start an item: the first item, and the lines after it that
\* are indented as it is.
ItemStart(j) ==
    \/ j = 2
    \/ j \in 3..(BlockEnd - 1) /\ lines[j] # "" /\ Indentation(lines[j]) = Base

\* The lines that continue an item with an unexpected indentation: more than
\* the items, less than twice as much.
Drift(j) ==
    /\ j \in 3..(BlockEnd - 1)
    /\ Indentation(lines[j]) > Base
    /\ Indentation(lines[j]) < 2 * Base

\* The lines that continue an item as expected: empty, or indented twice as
\* much as the items, or more.
Steady(j) ==
    /\ j \in 3..(BlockEnd - 1)
    /\ lines[j] = "" \/ Indentation(lines[j]) >= 2 * Base

\* The line that starts the item line j belongs to, and the line after the
\* last line of it.
ItemOf(j) == CHOOSE a \in 2..j : ItemStart(a) /\ \A b \in (a + 1)..j : ~ItemStart(b)

ItemEnd(a) ==
    LET later == {b \in (a + 1)..(BlockEnd - 1) : ItemStart(b)} IN
    IF later = {} THEN BlockEnd
    ELSE CHOOSE b \in later : \A c \in later : b <= c

\* The item that starts at line a has the separator of name and description
\* in one of its lines, and gives an entry.
ItemSeparator == IF section_kind(lines[1]) = "raises" THEN ": " ELSE ":"

GivesEntry(a) == \E k \in a..(ItemEnd(a) - 1) : Find(lines[k], ItemSeparator, 1) # 0

\* The number of the entry of the item that starts at line a.
EntryNumber(a) == Cardinality({b \in 2..a : ItemStart(b) /\ GivesEntry(b)})

\* A diagnostic of indentation, and the diagnostic of line j: it names the
\* indentation expected and the one found.
OfIndentation(w) == StartsWith(w, "Confusing indentation for continuation line ")

DriftDiagnostic(w, j) ==
    LET numbers == " should be " \o ToString(Base) \o " * 2 = " \o ToString(Base * 2)
                   \o " spaces, not " \o ToString(Indentation(lines[j])) IN
    /\ OfIndentation(w)
    /\ Len(w) > Len(numbers)
    /\ SubSeq(w, Len(w) - Len(numbers) + 1, Len(w)) = numbers

\* The lines 3..n with an unexpected indentation, in order.
RECURSIVE DriftUpTo(_)
DriftUpTo(n) ==
    IF n < 3 THEN << >>
    ELSE DriftUpTo(n - 1) \o (IF Drift(n) THEN <<n>> ELSE << >>)

\* C23: the loop, at the header of a section of items that starts the
\* docstring, reads the items up to the first line with content that is
\* indented less than the first item. The section has one entry for each item
\* that has the separator of name and description, the continuation lines
\* counting for none; each continuation line indented more than the items and
\* less than twice as much is a line of the description of its item; and the
\* diagnostics of indentation are, in order, one for each of these lines,
\* naming twice the indentation of the items and the indentation of the line.
\* The lines indented twice as much or more and the empty lines have none.
C23_IndentationDrift ==
    [][pc = "scan" /\ index = 1 /\ ItemsFirst =>
        LET starts == {a \in 2..(BlockEnd - 1) : ItemStart(a) /\ GivesEntry(a)}
            drift == DriftUpTo(Len(lines))
            desc(j) == Split(sections'[1].value[EntryNumber(ItemOf(j))].description, "\n", -1)
        IN
        /\ index' = BlockEnd
        /\ \A j \in 3..(BlockEnd - 1) : Drift(j) \/ Steady(j) \/ ItemStart(j)
        /\ Len(warnings') >= Len(drift)
        /\ \A k \in DOMAIN warnings' :
               IF k <= Len(drift) THEN DriftDiagnostic(warnings'[k], drift[k])
               ELSE ~OfIndentation(warnings'[k])
        /\ IF starts = {} THEN sections' = << >>
           ELSE /\ Len(sections') = 1
                /\ sections'[1].kind = section_kind(lines[1])
                /\ Len(sections'[1].value) = Cardinality(starts)
                /\ \A j \in 3..(BlockEnd - 1) :
                       Drift(j) /\ GivesEntry(ItemOf(j)) =>
                           \E n \in DOMAIN desc(j) : desc(j)[n] = LStrip(lines[j])
    ]_vars

\* parse() has returned one entry and one diagnostic for an item of 5 blanks
\* with a line of 10 blanks and a line of 6 blanks.
C23_Witness ==
    /\ pc = "done"
    /\ lines = <<"Raises:", "     E: five.", "          Well indented.", "      Badly indented.">>
    /\ Len(result) = 1
    /\ Len(result[1].value) = 1
    /\ result[1].value[1].description = "five.\nWell indented.\nBadly indented."
    /\ Len(warnings) = 1
    /\ DriftDiagnostic(warnings[1], 4)
    /\ Find(warnings[1], "should be 5 * 2 = 10 spaces, not 6", 1) # 0

-----------------------------------------------------------------------------
(* C24: the indentation of the first item, and the line that ends the section *)

\* The name of the item that starts at line j: its text up to the separator
\* of name and description and, in a section of arguments, up to the first
\* blank.
ItemName(j) ==
    LET name == Split(LStrip(lines[j]), ItemSeparator, 1)[1] IN
    IF section_kind(lines[1]) = "raises" THEN name ELSE Split(name, " ", 1)[1]

\* The lines that start an item with an entry, up to line n, in order.
RECURSIVE EntriesUpTo(_)
EntriesUpTo(n) ==
    IF n < 2 THEN << >>
    ELSE EntriesUpTo(n - 1) \o (IF ItemStart(n) /\ GivesEntry(n) THEN <<n>> ELSE << >>)

\* The name of an entry of the section.
EntryName(e) == IF section_kind(lines[1]) = "raises" THEN e.annotation ELSE e.name

\* A line indented less than the first item ends the section of the header
\* that starts the docstring.
SectionEnded == ItemsFirst /\ BlockEnd <= Len(lines)

\* The text section starts with the line, as it is or as the opening of an
\* admonition.
StartsWithLine(s, j) ==
    /\ s.kind = "text"
    /\ \/ StartsWith(s.value, lines[j])
       \/ StartsWith(s.value, replace_admonition(lines, j))

\* The claim as stated: when parse() has returned, the line that ended the
\* section starts a text section of the result.
C24_EndingLineIsText ==
    pc = "done" /\ SectionEnded =>
        \E n \in DOMAIN result : StartsWithLine(result[n], BlockEnd)

\* C24: the loop, at the header of a section of items that starts the
\* docstring, gives one entry, in order, to the first item and to each later
\* line indented as the first item is, and stops at the first line with
\* content that is indented less, which is in the description of no entry.
\* At that line the loop opens a section when the line is a header, and
\* starts a text with it otherwise; when parse() has returned, the line
\* starts the text section that follows the section of items exactly when it
\* is not a header.
C24_BaseIndentation ==
    /\ [][pc = "scan" /\ index = 1 /\ ItemsFirst =>
            LET entries == EntriesUpTo(BlockEnd - 1)
                value == IF sections' = << >> THEN << >> ELSE sections'[1].value IN
            /\ index' = BlockEnd
            /\ Len(sections') <= 1
            /\ Len(value) = Len(entries)
            /\ \A k \in DOMAIN value :
                   /\ EntryName(value[k]) = ItemName(entries[k])
                   /\ SectionEnded =>
                          Find(value[k].description, LStrip(lines[BlockEnd]), 1) = 0
       ]_vars
    /\ [][pc = "scan" /\ SectionEnded /\ index = BlockEnd =>
            IF HeaderAt(index)
            THEN current_section' = << >> /\ index' > index
            ELSE /\ current_section' \in {<<lines[index]>>,
                                          <<replace_admonition(lines, index)>>}
                 /\ sections' = sections
                 /\ index' = index + 1
       ]_vars
    /\ [](pc = "done" /\ SectionEnded =>
            LET next == IF EntriesUpTo(BlockEnd - 1) = << >> THEN 1 ELSE 2 IN
            IF HeaderAt(BlockEnd)
            THEN \A n \in DOMAIN result : ~StartsWithLine(result[n], BlockEnd)
            ELSE /\ next <= Len(result)
                 /\ StartsWithLine(result[next], BlockEnd))

\* parse() has returned a section of two items and the text of the line of
\* 4 blanks that followed the items of 5 blanks.
C24_Witness ==
    /\ pc = "done"
    /\ lines = <<"Raises:", "     E: five.", "     E: five.", "    F: four.">>
    /\ Len(result) = 2
    /\ Len(result[1].value) = 2
    /\ result[2] = [kind |-> "text", value |-> "    F: four."]

-----------------------------------------------------------------------------
(* C25: the default of an item *)

\* The docstring is the header of a section of arguments and one item.
OneArgument ==
    /\ Len(lines) = 2
    /\ section_kind(lines[1]) \in {"arguments", "keyword arguments"}
    /\ Indentation(lines[2]) > 0
    /\ Find(lines[2], ":", 1) # 0

\* The item is marked optional.
MarkedOptional(j) == Find(lines[j], ", optional):", 1) # 0

\* The default the signature of the parent gives for the name, None when
\* there is no parent, no entry for the name, or no default in it.
SignatureDefault(name) ==
    IF parent = None THEN None
    ELSE LET named == {k \in DOMAIN parent.arguments :
                           parent.arguments[k].name = name} IN
         IF named = {} THEN None
         ELSE parent.arguments[CHOOSE k \in named : TRUE].default

\* The claim as stated: the entry of the item has the default of the
\* signature when the item is marked optional, and none otherwise.
C25_DefaultOnlyWhenOptional ==
    pc = "done" /\ OneArgument =>
        /\ Len(result) = 1
        /\ result[1].value[1].value =
               IF MarkedOptional(2) THEN SignatureDefault(ItemName(2)) ELSE None

\* C25: every entry of the sections of arguments and of keyword arguments
\* that parse() returns has the default the signature of the parent gives for
\* its name, and none when the signature gives none; the entry of an item not
\* marked optional has it as the entry of an item marked optional has.
C25_DefaultFromSignature ==
    /\ \A n \in DOMAIN result :
           result[n].kind \in {"arguments", "keyword arguments"} =>
               \A k \in DOMAIN result[n].value :
                   result[n].value[k].value = SignatureDefault(result[n].value[k].name)
    /\ pc = "done" /\ OneArgument =>
           /\ Len(result) = 1
           /\ result[1].value[1].name = ItemName(2)
           /\ result[1].value[1].value = SignatureDefault(ItemName(2))

\* parse() has returned the default "1" of the signature for an item that is
\* not marked optional.
C25_Witness ==
    /\ pc = "done"
    /\ lines = <<"Parameters:", "    x (str): X value.">>
    /\ ~MarkedOptional(2)
    /\ SignatureDefault("x") = Some("1")
    /\ result[1].value[1].value = Some("1")

-----------------------------------------------------------------------------
(* C26: the annotation of an item *)

\* The docstring is a header and one item: an argument with the ":" that
\* ends its name, or the block of a returned or yielded value.
OneItem ==
    /\ Len(lines) = 2
    /\ section_kind(lines[1]) \in {"arguments", "keyword arguments", "returns", "yields"}
    /\ Indentation(lines[2]) > 0
    /\ section_kind(lines[1]) \in {"arguments", "keyword arguments"} =>
           Find(lines[2], ":", 1) # 0

OfArguments == section_kind(lines[1]) \in {"arguments", "keyword arguments"}

\* The text of the item before its first ":", the whole of it without one.
ItemHead ==
    LET item == LStrip(lines[2])
        colon == Find(item, ":", 1) IN
    IF colon = 0 THEN item ELSE SubSeq(item, 1, colon - 1)

\* The item has a type in the docstring: an argument has it in parentheses
\* after its name, a returned value has it before the ":".
HasInlineType ==
    IF OfArguments THEN Find(ItemHead, " (", 1) # 0
    ELSE Find(lines[2], ":", 1) # 0

\* The type in the docstring: what the parentheses hold, without the mark of
\* an optional argument; the text before the ":" for a returned value.
InlineType ==
    IF OfArguments
    THEN LET open == Find(ItemHead, " (", 1)
             inside == SubSeq(ItemHead, open + 2, Len(ItemHead) - 1)
             mark == Find(inside, ", optional", 1) IN
         IF mark = 0 THEN inside ELSE SubSeq(inside, 1, mark - 1)
    ELSE ItemHead

\* The annotation the signature of the parent has for the item: the one of
\* the argument of its name, or the return annotation.
SignatureAnnotation ==
    IF parent = None THEN None
    ELSE IF OfArguments
    THEN LET named == {k \in DOMAIN parent.arguments :
                           parent.arguments[k].name = ItemName(2)} IN
         IF named = {} THEN None
         ELSE parent.arguments[CHOOSE k \in named : TRUE].annotation
    ELSE parent.returns

ExpectedAnnotation ==
    IF HasInlineType THEN Some(InlineType) ELSE SignatureAnnotation

\* The entries without annotation of the sections, and the diagnostics of a
\* missing annotation.
Unannotated(secs) ==
    {<<n, k>> \in (DOMAIN secs) \X (1..Len(lines)) :
        IF secs[n].kind \in {"arguments", "keyword arguments"}
        THEN k \in DOMAIN secs[n].value /\ secs[n].value[k].annotation = None
        ELSE /\ secs[n].kind \in {"returns", "yields"}
             /\ k = 1
             /\ secs[n].value.annotation = None}

MissingAnnotation(w) ==
    \/ StartsWith(w, "No type or annotation for argument ")
    \/ StartsWith(w, "No return type/annotation in ")

\* C26: when parse() has returned for a header and one item, the one section
\* has for the item the type written in the docstring when there is one, or
\* else the annotation of the signature of the parent (of the argument of
\* that name, or of the returned value), or else none, and the diagnostics
\* are the one of a missing annotation when the item has none, and none when
\* it has one. For every docstring, each entry without annotation of the
\* sections collected has one diagnostic of a missing annotation, and there
\* is no other.
C26_AnnotationPrecedence ==
    /\ pc = "done" /\ OneItem =>
           /\ Len(result) = 1
           /\ result[1].kind = section_kind(lines[1])
           /\ ExpectedAnnotation =
                  IF OfArguments THEN result[1].value[1].annotation
                  ELSE result[1].value.annotation
           /\ IF ExpectedAnnotation = None
              THEN Len(warnings) = 1 /\ MissingAnnotation(warnings[1])
              ELSE warnings = << >>
    /\ Cardinality({k \in DOMAIN warnings : MissingAnnotation(warnings[k])})
           = Cardinality(Unannotated(sections))

\* parse() has returned the type of the docstring for an argument the
\* signature annotates otherwise, without diagnostic.
C26_Witness ==
    /\ pc = "done"
    /\ lines = <<"Parameters:", "    x (str): X value.">>
    /\ SignatureAnnotation = Some("int")
    /\ result[1].value[1].annotation = Some("str")
    /\ warnings = << >>

-----------------------------------------------------------------------------
(* C27: the look of a section in a code block *)

\* Line i is in a fenced code block: it follows the fence that opens one, up
\* to the fence that closes it.
InFence(i) ==
    LET before == Cardinality({k \in 1..(i - 1) : is_fence(lines[k])}) IN
    before % 2 = 1

\* Line i has the look of a header: it is one without its indentation.
LookAlike(i) == i \in DOMAIN lines /\ section_kind(LStrip(lines[i])) # ""

\* Line i is in a code block, fenced or indented.
InCodeBlock(i) == InFence(i) \/ Indentation(lines[i]) > 0

\* The docstring has lines with the look of a header, each in a code block.
HeadersInCodeBlocks ==
    /\ \E i \in DOMAIN lines : LookAlike(i)
    /\ \A i \in DOMAIN lines : LookAlike(i) => InCodeBlock(i)

\* The text of the docstring: the lines of the fenced code blocks as they
\* are, a title followed by a body as the opening of an admonition.
TextOfLines ==
    RStripChars(Join([i \in DOMAIN lines |->
                         IF InFence(i) \/ is_fence(lines[i]) THEN lines[i]
                         ELSE replace_admonition(lines, i)], "\n"), {"\n"})

\* C27: the loop, at a line of a fenced code block or at an indented line
\* with the look of a header, adds the line to the text it is reading, as it
\* is in a fenced block, and collects no section and no diagnostic. In a
\* docstring whose lines with the look of a header are all in code blocks,
\* the loop is in a code block exactly at the lines that follow the fence
\* that opens one, and when parse() has returned the result is one text
\* section with every line of the docstring, and there is no diagnostic.
C27_CodeBlocks ==
    /\ [][pc = "scan" /\ index <= Len(lines) /\ in_code_block =>
            /\ sections' = sections
            /\ warnings' = warnings
            /\ current_section' = Append(current_section, lines[index])
            /\ index' = index + 1
       ]_vars
    /\ [][pc = "scan" /\ LookAlike(index) /\ Indentation(lines[index]) > 0 =>
            /\ sections' = sections
            /\ warnings' = warnings
            /\ Len(current_section') = Len(current_section) + 1
            /\ index' = index + 1
       ]_vars
    /\ [](pc = "scan" /\ index <= Len(lines) /\ HeadersInCodeBlocks =>
            (in_code_block <=> InFence(index)))
    /\ [](pc = "done" /\ HeadersInCodeBlocks =>
            /\ result = <<[kind |-> "text", value |-> TextOfLines]>>
            /\ warnings = << >>)

\* parse() has returned one text section and no diagnostic for a fenced and
\* an indented code block that both have the header and the item of a
\* section in them.
C27_Witness ==
    /\ pc = "done"
    /\ lines = <<"~~~python", "Parameters:", "    s: A string.", "~~~",
                 "    Parameters:", "        s: A string.">>
    /\ Len(result) = 1
    /\ result[1].kind = "text"
    /\ StartsWith(result[1].value, "~~~python\nParameters:\n    s: A string.\n~~~\n")
    /\ warnings = << >>

====
